---------------------------- MODULE Spec2Model ----------------------------
(***************************************************************************)
(* Longitudinal TWA dataset generation and validation                      *)
(* (dgmtsproject/synthetics-data-analyzer).                                *)
(*                                                                         *)
(* Number representation.  JavaScript numbers that hold fractions are      *)
(* kept in fixed point: a quantity written "milli" is the number times     *)
(* 1000 (sleep_hours 7.5 is 7500), a multiplicative factor is per-mille    *)
(* (1.2 is 1200), a categorical weight is in units of 1/10000.  Counts     *)
(* that the code rounds to integers (days, cups, minutes, drinks) are      *)
(* plain integers.  Math.random() is the sequence Draw(seed, 0),           *)
(* Draw(seed, 1), ... of per-mille values in 0..999, one sequence per      *)
(* seed; the variable draws counts the calls made so far.  The statistics  *)
(* of validateDataset are computed in rounded binary floating point (see   *)
(* SignificandBits), because their rounding is observable in the report.   *)
(***************************************************************************)
EXTENDS Integers, Sequences, FiniteSets, TLC

\* Bounds of the model (not program constants).
MaxSubjects == 2
MaxMonths == 13
NumSeeds == 27

VARIABLES
    pc,                 \* position inside App.handleGenerateDataset
    config,             \* the DatasetConfig of the request
    seed,               \* which Math.random() sequence this run sees
    draws,              \* number of Math.random() calls made so far
    demographics,       \* const demographics (generateCompleteDataset)
    person,             \* 1-based index of the for..of loop over demographics
    month,              \* the inner loop variable
    completeDataset,    \* const completeDataset (generateCompleteDataset)
    lastSeason,         \* season passed to generateMonthlyTWABehaviors last
    dataset,            \* App state: dataset
    isGenerating,       \* App state: isGenerating
    validationResults,  \* App state: validationResults (<<>> is null)
    error               \* App state: error (<<>> is null)

vars == <<pc, config, seed, draws, demographics, person, month,
          completeDataset, lastSeason, dataset, isGenerating,
          validationResults, error>>

---------------------------------------------------------------------------
\* Arithmetic helpers

Max(a, b) == IF a >= b THEN a ELSE b

Min(a, b) == IF a <= b THEN a ELSE b

Abs(a) == IF a >= 0 THEN a ELSE 0 - a

\* product of a milli (or per-mille) quantity and a per-mille factor
Mul(a, f) == (a * f) \div 1000

\* Math.round of a milli quantity: floor(x + 0.5), an integer
Round(a) == (a + 500) \div 1000

\* Math.round(x * 10) / 10 of a milli quantity, again in milli
Round10(a) == ((a + 50) \div 100) * 100

\* lo + Math.random() * span, all per-mille, r the draw in 0..999
Noise(lo, span, r) == lo + (r * span) \div 1000

RECURSIVE SumSeq(_)
SumSeq(s) == IF s = <<>> THEN 0 ELSE Head(s) + SumSeq(Tail(s))

---------------------------------------------------------------------------
\* The random source

DrawLevels == <<0, 600, 999>>

RECURSIVE Pow(_, _)
Pow(b, n) == IF n = 0 THEN 1 ELSE b * Pow(b, n - 1)

\* the k-th value Math.random() returns in the run with seed s (per-mille):
\* the sequences are the periodic ones of period 3 over DrawLevels, seed s
\* read as the three digits of s in base Len(DrawLevels)
Draw(s, k) ==
    DrawLevels[1 + ((s \div Pow(Len(DrawLevels), k % 3)) % Len(DrawLevels))]

---------------------------------------------------------------------------
\* EnhancedDemographicGenerator

RECURSIVE walk(_, _, _)
walk(weights, i, random) ==
    IF i > Len(weights) THEN Len(weights)
    ELSE IF random - weights[i] <= 0 THEN i
    ELSE walk(weights, i + 1, random - weights[i])

\* index of the chosen item; r is the Math.random() draw
weightedRandomChoice(items, weights, r) ==
    LET totalWeight == SumSeq(weights)
        random == (r * totalWeight) \div 1000
    IN items[walk(weights, 1, random)]

\* variant of ageGroupToNumeric whose ageMap lacks the '75+' row, so that
\* the oldest bracket falls through to the default
ageGroupToNumericWithoutOldest(ageGroup) ==
    CASE ageGroup = "18-24" -> 21000
      [] ageGroup = "25-34" -> 29500
      [] ageGroup = "35-44" -> 39500
      [] ageGroup = "45-54" -> 49500
      [] ageGroup = "55-64" -> 59500
      [] ageGroup = "65-74" -> 69500
      [] OTHER -> 40000

ageGroupToNumeric(ageGroup) ==
    CASE ageGroup = "18-24" -> 21000
      [] ageGroup = "25-34" -> 29500
      [] ageGroup = "35-44" -> 39500
      [] ageGroup = "45-54" -> 49500
      [] ageGroup = "55-64" -> 59500
      [] ageGroup = "65-74" -> 69500
      [] ageGroup = "75+" -> 80000
      [] OTHER -> 40000

incomeBracketToNumeric(incomeBracket) ==
    CASE incomeBracket = "<$35k" -> 25000
      [] incomeBracket = "$35-75k" -> 55000
      [] incomeBracket = "$75-100k" -> 87500
      [] incomeBracket = ">$100k" -> 125000
      [] OTHER -> 50000

\* variant of shiftProbabilitiesTowardHigher whose lower half ends at
\* Math.floor(length / 2), so that the middle of three entries counts as
\* upper
shiftTowardHigherFloorSplit(probabilities, factor) ==
    LET reduction == factor - 1000
        n == Len(probabilities)
        shifted == [i \in 1..n |->
                      IF i - 1 < n \div 2
                      THEN Max(0, probabilities[i] - reduction)
                      ELSE Min(10000, probabilities[i] + reduction)]
        total == SumSeq(shifted)
    IN [i \in 1..n |-> (shifted[i] * 10000) \div total]

\* factor is per-mille, probabilities are in units of 1/10000
shiftProbabilitiesTowardHigher(probabilities, factor) ==
    LET reduction == factor - 1000
        n == Len(probabilities)
        shifted == [i \in 1..n |->
                      IF 2 * (i - 1) < n
                      THEN Max(0, probabilities[i] - reduction)
                      ELSE Min(10000, probabilities[i] + reduction)]
        total == SumSeq(shifted)
    IN [i \in 1..n |-> (shifted[i] * 10000) \div total]

shiftProbabilitiesTowardLower(probabilities, factor) ==
    LET reduction == factor - 1000
        n == Len(probabilities)
        shifted == [i \in 1..n |->
                      IF 2 * (i - 1) < n
                      THEN Min(10000, probabilities[i] + reduction)
                      ELSE Max(0, probabilities[i] - reduction)]
        total == SumSeq(shifted)
    IN [i \in 1..n |-> (shifted[i] * 10000) \div total]

sampleAgeGroup(r) ==
    weightedRandomChoice(
        <<"18-24", "25-34", "35-44", "45-54", "55-64", "65-74", "75+">>,
        <<1100, 1400, 1300, 1200, 1300, 1100, 700>>, r)

sampleGender(r) ==
    weightedRandomChoice(<<"Male", "Female", "Non-binary">>, <<4900, 5050, 50>>, r)

sampleEthnicity(r) ==
    weightedRandomChoice(<<"White", "Hispanic", "Black", "Asian", "Other">>,
                         <<6000, 1900, 1300, 600, 200>>, r)

sampleEducationByAge(ageGroup, r) ==
    LET probabilities ==
          CASE ageGroup = "18-24" -> <<500, 2500, 4500, 2500>>
            [] ageGroup = "25-34" -> <<800, 2200, 3000, 4000>>
            [] ageGroup = "35-44" -> <<1000, 2500, 2800, 3700>>
            [] ageGroup = "45-54" -> <<1200, 2800, 3000, 3000>>
            [] ageGroup = "55-64" -> <<1500, 3200, 2800, 2500>>
            [] ageGroup = "65-74" -> <<1800, 3500, 2500, 2200>>
            [] ageGroup = "75+" -> <<2000, 4000, 2500, 1500>>
            [] OTHER -> <<1100, 2700, 2900, 3300>>
    IN weightedRandomChoice(
           <<"Less than HS", "High School", "Some College", "Bachelor+">>,
           probabilities, r)

\* baseProbs[education] || [0.28, 0.35, 0.16, 0.21] of
\* sampleIncomeByEducationAge
incomeBaseProbs(education) ==
    CASE education = "Less than HS" -> <<5000, 3500, 1000, 500>>
      [] education = "High School" -> <<3500, 4000, 2000, 500>>
      [] education = "Some College" -> <<2500, 4500, 2500, 500>>
      [] education = "Bachelor+" -> <<1000, 3000, 3500, 2500>>
      [] OTHER -> <<2800, 3500, 1600, 2100>>

\* ageGroupToNumeric(ageGroup) / 50, per-mille
incomeAgeMultiplier(ageGroup) == ageGroupToNumeric(ageGroup) \div 50

sampleIncomeByEducationAge(education, ageGroup, r) ==
    LET baseProbs == incomeBaseProbs(education)
        ageMultiplier == incomeAgeMultiplier(ageGroup)
        probabilities ==
          IF ageMultiplier > 1000
          THEN shiftProbabilitiesTowardHigher(baseProbs, ageMultiplier)
          ELSE baseProbs
    IN weightedRandomChoice(<<"<$35k", "$35-75k", "$75-100k", ">$100k">>,
                            probabilities, r)

\* the fitness probabilities of sampleFitnessByDemographics after the age
\* adjustment
fitnessBaseProbs(ageGroup) ==
    LET ageNumeric == ageGroupToNumeric(ageGroup)
    IN IF ageNumeric > 50000 THEN <<5000, 4000, 1000>>
       ELSE IF ageNumeric < 30000 THEN <<1500, 4500, 4000>>
       ELSE <<3000, 5000, 2000>>

\* ... after the income adjustment
fitnessIncomeAdjusted(probabilities, income) ==
    LET incomeNumeric == incomeBracketToNumeric(income)
    IN IF incomeNumeric > 75000
       THEN shiftProbabilitiesTowardHigher(probabilities, 1200)
       ELSE IF incomeNumeric < 35000
       THEN shiftProbabilitiesTowardLower(probabilities, 1200)
       ELSE probabilities

\* ... after the education adjustment
fitnessEducationAdjusted(probabilities, education) ==
    IF education = "Bachelor+"
    THEN shiftProbabilitiesTowardHigher(probabilities, 1100)
    ELSE probabilities

sampleFitnessByDemographics(ageGroup, income, education, r) ==
    LET p0 == fitnessBaseProbs(ageGroup)
        p1 == fitnessIncomeAdjusted(p0, income)
        p2 == fitnessEducationAdjusted(p1, education)
    IN weightedRandomChoice(<<"Low", "Medium", "High">>, p2, r)

sampleSleepTypeByDemographics(ageGroup, income, r) ==
    LET ageNumeric == ageGroupToNumeric(ageGroup)
        p0 == IF ageNumeric > 50000 THEN <<7000, 2000, 1000>>
              ELSE IF ageNumeric < 30000 THEN <<4500, 3000, 2500>>
              ELSE <<6000, 2500, 1500>>
        incomeNumeric == incomeBracketToNumeric(income)
        p1 == IF incomeNumeric > 75000 THEN <<7000, 2000, 1000>>
              ELSE IF incomeNumeric < 35000 THEN <<5000, 3000, 2000>>
              ELSE p0
    IN weightedRandomChoice(<<"Regular", "Short", "Irregular">>, p1, r)

sampleRegion(r) ==
    weightedRandomChoice(<<"Northeast", "Midwest", "South", "West">>,
                         <<1700, 2100, 3800, 2400>>, r)

sampleUrbanRuralByRegion(region, r) ==
    LET probabilities ==
          CASE region = "Northeast" -> <<2500, 6000, 1500>>
            [] region = "Midwest" -> <<1500, 5000, 3500>>
            [] region = "South" -> <<2000, 4500, 3500>>
            [] region = "West" -> <<3000, 5500, 1500>>
            [] OTHER -> <<2000, 5000, 3000>>
    IN weightedRandomChoice(<<"Urban", "Suburban", "Rural">>, probabilities, r)

InSeq(x, s) == \E i \in 1..Len(s) : s[i] = x

sampleOccupationByDemographics(education, ageGroup, r) ==
    LET educationOccupations ==
          CASE education = "Less than HS" ->
                 <<"Service Worker", "Laborer", "Retail Worker", "Unemployed">>
            [] education = "Some College" ->
                 <<"Administrative", "Technician", "Sales Manager", "Healthcare Support">>
            [] education = "Bachelor+" ->
                 <<"Professional", "Manager", "Engineer", "Healthcare Professional">>
            [] OTHER ->
                 <<"Office Worker", "Technician", "Sales", "Service Worker">>
        ageOccupationsList ==
          CASE ageGroup = "18-24" -> <<"Student", "Service Worker", "Retail Worker">>
            [] ageGroup = "25-34" -> <<"Professional", "Office Worker", "Technician">>
            [] ageGroup = "35-44" -> <<"Manager", "Professional", "Healthcare Professional">>
            [] ageGroup = "45-54" -> <<"Manager", "Professional", "Administrative">>
            [] ageGroup = "55-64" -> <<"Manager", "Administrative", "Consultant">>
            [] ageGroup = "65-74" -> <<"Retired", "Consultant", "Part-time">>
            [] ageGroup = "75+" -> <<"Retired", "Volunteer">>
            [] OTHER -> <<"Office Worker">>
        \* Array.from(new Set([...educationOccupations, ...ageOccupationsList]))
        allOccupations ==
          educationOccupations \o
          SelectSeq(ageOccupationsList, LAMBDA o : ~InSeq(o, educationOccupations))
        weights == [i \in 1..Len(allOccupations) |->
                      IF InSeq(allOccupations[i], educationOccupations)
                      THEN 10000 ELSE 5000]
    IN weightedRandomChoice(allOccupations, weights, r)

DigitChar == <<"0", "1", "2", "3", "4", "5", "6", "7", "8", "9">>

\* i.toString(): the decimal digits of i >= 0, one character each
RECURSIVE toString(_)
toString(i) ==
    IF i < 10 THEN <<DigitChar[i + 1]>>
    ELSE Append(toString(i \div 10), DigitChar[(i % 10) + 1])

\* s.padStart(targetLength, c)
padStart(s, targetLength, c) ==
    IF Len(s) >= targetLength THEN s
    ELSE [j \in 1..(targetLength - Len(s)) |-> c] \o s

\* variant of subjectId that leaves the index out of the identifier; the
\* uniqueness of subject_id values (C1) rests on the index
subjectIdWithoutIndex(i) ==
    <<"S", "Y", "N", "T", "H", "_">> \o padStart(toString(0), 6, "0")

\* `SYNTH_${i.toString().padStart(6, '0')}`
subjectId(i) == <<"S", "Y", "N", "T", "H", "_">> \o padStart(toString(i), 6, "0")

\* one iteration of the loop of generateCorrelatedDemographics: profile i,
\* whose first Math.random() call is call number k of the run with seed s
generateProfile(i, s, k) ==
    LET ageGroup == sampleAgeGroup(Draw(s, k))
        education == sampleEducationByAge(ageGroup, Draw(s, k + 1))
        income == sampleIncomeByEducationAge(education, ageGroup, Draw(s, k + 2))
        fitness == sampleFitnessByDemographics(ageGroup, income, education, Draw(s, k + 3))
        sleepType == sampleSleepTypeByDemographics(ageGroup, income, Draw(s, k + 4))
        region == sampleRegion(Draw(s, k + 5))
        urbanRural == sampleUrbanRuralByRegion(region, Draw(s, k + 6))
    IN [id |-> subjectId(i),
        age_group |-> ageGroup,
        age_numeric |-> ageGroupToNumeric(ageGroup),
        gender |-> sampleGender(Draw(s, k + 7)),
        ethnicity |-> sampleEthnicity(Draw(s, k + 8)),
        education |-> education,
        income_bracket |-> income,
        income_numeric |-> incomeBracketToNumeric(income),
        fitness_level |-> fitness,
        sleep_type |-> sleepType,
        region |-> region,
        urban_rural |-> urbanRural,
        occupation |-> sampleOccupationByDemographics(education, ageGroup, Draw(s, k + 9))]

\* Math.random() calls made for one profile
DrawsPerProfile == 10

\* variant of generateCorrelatedDemographics that produces a profile even
\* when nSamples < 1; the empty dataset of C2 rests on the loop bound
generateAtLeastOneProfile(nSamples, s, k) ==
    [j \in 1 .. Max(1, nSamples) |-> generateProfile(j - 1, s, k + DrawsPerProfile * (j - 1))]

\* generateCorrelatedDemographics(nSamples), started at call number k
generateCorrelatedDemographics(nSamples, s, k) ==
    [j \in 1..Max(0, nSamples) |-> generateProfile(j - 1, s, k + DrawsPerProfile * (j - 1))]

---------------------------------------------------------------------------
\* ResearchValidatedTWAGenerator

calculateDemographicFactors(d) ==
    [age |-> d.age_numeric,
     income |-> d.income_numeric,
     education |-> d.education,
     fitness |-> d.fitness_level,
     sleepType |-> d.sleep_type,
     region |-> d.region,
     urbanRural |-> d.urban_rural]

calculateSeasonalFactors(season) ==
    CASE season = "Spring" -> [exercise |-> 1100, mood |-> 1050, outdoor |-> 1200]
      [] season = "Summer" -> [exercise |-> 1200, mood |-> 1100, outdoor |-> 1500]
      [] season = "Fall" -> [exercise |-> 900, mood |-> 950, outdoor |-> 1000]
      [] season = "Winter" -> [exercise |-> 800, mood |-> 900, outdoor |-> 600]

\* the education -> factor maps (per-mille), listed Less than HS, High School,
\* Some College, Bachelor+, then the || default
educationEffect(education, lessHS, hs, some, bach, dflt) ==
    CASE education = "Less than HS" -> lessHS
      [] education = "High School" -> hs
      [] education = "Some College" -> some
      [] education = "Bachelor+" -> bach
      [] OTHER -> dflt

\* days per week, an integer
generateMotionBehavior(f, seasonalFactors, r) ==
    LET fitnessMultiplier ==
          CASE f.fitness = "Low" -> 300
            [] f.fitness = "Medium" -> 600
            [] f.fitness = "High" -> 1000
            [] OTHER -> 500
        ageEffect == Max(300, 1000 - (f.age - 25000) \div 100)
        incomeEffect == Min(1500, 500 + f.income \div 100)
        edu == educationEffect(f.education, 700, 800, 900, 1100, 800)
        baseDays0 == 2000 + Mul(Mul(Mul(fitnessMultiplier, ageEffect), incomeEffect), edu) * 3
        baseDays1 == Mul(baseDays0, seasonalFactors.exercise)
        baseDays2 == Mul(baseDays1, Noise(800, 400, r))
    IN Round(Max(0, Min(7000, baseDays2)))

\* hours and quality, both milli; r1 and r2 are the two draws in call order
generateSleepBehavior(f, motionDays, r1, r2) ==
    LET baseHours == IF f.age > 65000 THEN 7000 ELSE IF f.age < 30000 THEN 8000 ELSE 7500
        baseQuality == IF f.age > 65000 THEN 6500 ELSE IF f.age < 30000 THEN 7500 ELSE 7000
        sleepTypeEffect ==
          CASE f.sleepType = "Regular" -> [hours |-> 1000, quality |-> 1000]
            [] f.sleepType = "Short" -> [hours |-> 700, quality |-> 600]
            [] f.sleepType = "Irregular" -> [hours |-> 800, quality |-> 700]
            [] OTHER -> [hours |-> 1000, quality |-> 1000]
        exerciseEffect == 1000 + (motionDays - 3) * 100
        incomeEffect == 900 + f.income \div 200
        hours == Mul(Mul(Mul(baseHours, sleepTypeEffect.hours), exerciseEffect), incomeEffect)
        quality == Mul(Mul(Mul(baseQuality, sleepTypeEffect.quality), exerciseEffect), incomeEffect)
        hoursRandom == Noise(900, 200, r1)
        qualityRandom == Noise(800, 400, r2)
    IN [hours |-> Max(4000, Min(10000, Mul(hours, hoursRandom))),
        quality |-> Max(1000, Min(10000, Mul(quality, qualityRandom)))]

\* cups per day, an integer
generateHydrationBehavior(f, sleepQuality, r) ==
    LET sleepEffect == 800 + (sleepQuality.quality * 400) \div 10000
        ageEffect == Max(700, 1000 - (f.age - 30000) \div 200)
        edu == educationEffect(f.education, 800, 900, 1000, 1100, 1000)
        baseCups0 == Mul(6000, Mul(Mul(sleepEffect, ageEffect), edu))
        baseCups1 == Mul(baseCups0, Noise(800, 400, r))
    IN Max(2, Min(12, Round(baseCups1)))

\* Mediterranean diet score, milli, a multiple of 0.1
generateDietBehavior(f, motionDays, r) ==
    LET exerciseEffect == 800 + (motionDays * 400) \div 7
        edu == educationEffect(f.education, 600, 800, 1000, 1200, 1000)
        incomeEffect == 700 + f.income \div 150
        ageEffect == Min(1300, 800 + f.age \div 200)
        baseScore0 == Mul(5000, Mul(Mul(Mul(exerciseEffect, edu), incomeEffect), ageEffect))
        baseScore1 == Mul(baseScore0, Noise(700, 600, r))
    IN Max(1000, Min(10000, Round10(baseScore1)))

\* const dietScore = this.generateDietBehavior(demoFactors, motionDays) in
\* generateMonthlyTWABehaviors: the diet score as a function of everything in
\* scope at the call, the sampled sleepQuality {hours, quality} included
dietScoreAt(demoFactors, motionDays, sleepQuality, r) ==
    generateDietBehavior(demoFactors, motionDays, r)

\* minutes per week, an integer
generateMeditationBehavior(f, dietScore, r) ==
    LET dietEffect == 500 + dietScore \div 20
        ageEffect == Min(2000, 500 + f.age \div 100)
        edu == educationEffect(f.education, 300, 600, 1000, 1500, 1000)
        incomeEffect == 600 + f.income \div 200
        baseMinutes0 == Mul(30000, Mul(Mul(Mul(dietEffect, ageEffect), edu), incomeEffect))
        baseMinutes1 == Mul(baseMinutes0, Noise(200, 1600, r))
    IN Max(0, Min(300, Round(baseMinutes1)))

generateSmokingBehavior(f, r) ==
    LET p0 == IF f.income > 75000 THEN <<8000, 1500, 500>>
              ELSE IF f.income < 35000 THEN <<5000, 3000, 2000>>
              ELSE <<6500, 2500, 1000>>
        probabilities == IF f.age > 50000 THEN <<6000, 3000, 1000>> ELSE p0
    IN weightedRandomChoice(<<"Never", "Former", "Current">>, probabilities, r)

\* drinks per week, an integer
generateAlcoholBehavior(f, smokingStatus, r) ==
    LET smokingEffect ==
          CASE smokingStatus = "Never" -> 1000
            [] smokingStatus = "Former" -> 1200
            [] smokingStatus = "Current" -> 1500
            [] OTHER -> 1000
        ageEffect == IF f.age < 30000 THEN 1500 ELSE IF f.age > 50000 THEN 700 ELSE 1000
        incomeEffect == 500 + f.income \div 100
        edu == educationEffect(f.education, 700, 900, 1100, 1300, 1000)
        baseDrinks0 == Mul(2000, Mul(Mul(Mul(smokingEffect, ageEffect), incomeEffect), edu))
        baseDrinks1 == Mul(baseDrinks0, Noise(300, 1400, r))
    IN Max(0, Min(35, Round(baseDrinks1)))

\* grams per day, an integer
generateSugarBehavior(f, dietScore, r) ==
    LET dietEffect == 2000 - dietScore \div 10
        edu == educationEffect(f.education, 1300, 1100, 1000, 800, 1000)
        ageEffect == Max(600, 1500 - f.age \div 100)
        baseGrams0 == Mul(50000, Mul(Mul(dietEffect, edu), ageEffect))
        baseGrams1 == Mul(baseGrams0, Noise(600, 800, r))
    IN Max(10, Min(150, Round(baseGrams1)))

\* grams per day, milli, a multiple of 0.1
generateSodiumBehavior(f, dietScore, r) ==
    LET dietEffect == 2000 - dietScore \div 10
        ageEffect == Min(1500, 800 + f.age \div 200)
        incomeEffect == 1500 - f.income \div 200
        baseGrams0 == Mul(3500, Mul(Mul(dietEffect, ageEffect), incomeEffect))
        baseGrams1 == Mul(baseGrams0, Noise(700, 600, r))
    IN Max(1000, Min(8000, Round10(baseGrams1)))

\* servings per week, an integer
generateProcessedFoods(f, dietScore, r) ==
    LET dietEffect == 2000 - dietScore \div 10
        incomeEffect == 1500 - f.income \div 150
        edu == educationEffect(f.education, 1400, 1200, 1000, 700, 1000)
        baseServings0 == Mul(5000, Mul(Mul(dietEffect, incomeEffect), edu))
        baseServings1 == Mul(baseServings0, Noise(600, 800, r))
    IN Max(0, Min(20, Round(baseServings1)))

urbanEffect(urbanRural, urban, suburban, rural) ==
    CASE urbanRural = "Urban" -> urban
      [] urbanRural = "Suburban" -> suburban
      [] urbanRural = "Rural" -> rural
      [] OTHER -> 1000

\* close relationships, an integer
generateSocialConnections(f, r) ==
    LET urb == urbanEffect(f.urbanRural, 1300, 1100, 800)
        incomeEffect == 700 + f.income \div 200
        ageEffect == Max(600, 1200 - Abs(f.age - 40000) \div 50)
        edu == educationEffect(f.education, 800, 900, 1000, 1200, 1000)
        baseConnections0 == Mul(3000, Mul(Mul(Mul(urb, incomeEffect), ageEffect), edu))
        baseConnections1 == Mul(baseConnections0, Noise(600, 800, r))
    IN Max(0, Min(10, Round(baseConnections1)))

\* minutes per week, an integer
generateNatureConnection(f, seasonalFactors, r) ==
    LET baseMinutes0 == Mul(60000, seasonalFactors.outdoor)
        urb == urbanEffect(f.urbanRural, 500, 800, 1500)
        incomeEffect == 600 + f.income \div 200
        ageEffect == Min(1500, 700 + f.age \div 150)
        baseMinutes1 == Mul(baseMinutes0, Mul(Mul(urb, incomeEffect), ageEffect))
        baseMinutes2 == Mul(baseMinutes1, Noise(400, 1200, r))
    IN Max(0, Min(300, Round(baseMinutes2)))

\* hours per week, an integer
generateCulturalActivities(f, r) ==
    LET edu == educationEffect(f.education, 500, 800, 1000, 1500, 1000)
        incomeEffect == 500 + f.income \div 150
        ageEffect == Max(600, 1200 - Abs(f.age - 45000) \div 60)
        baseHours0 == Mul(2000, Mul(Mul(edu, incomeEffect), ageEffect))
        baseHours1 == Mul(baseHours0, Noise(300, 1400, r))
    IN Max(0, Min(20, Round(baseHours1)))

\* variant of generatePurposeMeaning without Math.max(1, Math.min(10, ...));
\* the purpose domain of C5 rests on the clamp
generatePurposeMeaningUnclamped(f, socialConnections, meditationMins, r) ==
    LET socialEffect == 500 + socialConnections * 50
        meditationEffect == 600 + (meditationMins * 400) \div 300
        ageEffect == Min(1500, 700 + f.age \div 100)
        edu == educationEffect(f.education, 800, 900, 1000, 1100, 1000)
        baseScore0 == Mul(5000, Mul(Mul(Mul(socialEffect, meditationEffect), ageEffect), edu))
        baseScore1 == Mul(baseScore0, Noise(600, 800, r))
    IN Round10(baseScore1)

\* purpose score, milli, a multiple of 0.1
generatePurposeMeaning(f, socialConnections, meditationMins, r) ==
    LET socialEffect == 500 + socialConnections * 50
        meditationEffect == 600 + (meditationMins * 400) \div 300
        ageEffect == Min(1500, 700 + f.age \div 100)
        edu == educationEffect(f.education, 800, 900, 1000, 1100, 1000)
        baseScore0 == Mul(5000, Mul(Mul(Mul(socialEffect, meditationEffect), ageEffect), edu))
        baseScore1 == Mul(baseScore0, Noise(600, 800, r))
    IN Max(1000, Min(10000, Round10(baseScore1)))

\* Math.random() calls made by one generateMonthlyTWABehaviors call
DrawsPerBehaviors == 15

\* variant of generateMonthlyTWABehaviors in which the seasonal mood factor,
\* which the code computes and never reads, scales the cultural hours
generateBehaviorsWithSeasonalMood(personDemographics, mo, season, s, k) ==
    LET demoFactors == calculateDemographicFactors(personDemographics)
        seasonalFactors == calculateSeasonalFactors(season)
        motionDays == generateMotionBehavior(demoFactors, seasonalFactors, Draw(s, k))
        sleepQuality == generateSleepBehavior(demoFactors, motionDays, Draw(s, k + 1), Draw(s, k + 2))
        hydration == generateHydrationBehavior(demoFactors, sleepQuality, Draw(s, k + 3))
        dietScore == generateDietBehavior(demoFactors, motionDays, Draw(s, k + 4))
        meditationMins == generateMeditationBehavior(demoFactors, dietScore, Draw(s, k + 5))
        smokingStatus == generateSmokingBehavior(demoFactors, Draw(s, k + 6))
        alcoholDrinks == generateAlcoholBehavior(demoFactors, smokingStatus, Draw(s, k + 7))
        sugarGrams == generateSugarBehavior(demoFactors, dietScore, Draw(s, k + 8))
        sodiumGrams == generateSodiumBehavior(demoFactors, dietScore, Draw(s, k + 9))
        processedServings == generateProcessedFoods(demoFactors, dietScore, Draw(s, k + 10))
        socialConnections == generateSocialConnections(demoFactors, Draw(s, k + 11))
        natureMinutes == generateNatureConnection(demoFactors, seasonalFactors, Draw(s, k + 12))
        culturalEngagement ==
            Round(generateCulturalActivities(demoFactors, Draw(s, k + 13)) * seasonalFactors.mood)
        purposeScore == generatePurposeMeaning(demoFactors, socialConnections, meditationMins, Draw(s, k + 14))
    IN [motion_days_week |-> motionDays,
        sleep_hours |-> sleepQuality.hours,
        sleep_quality_score |-> sleepQuality.quality,
        hydration_cups_day |-> hydration,
        diet_mediterranean_score |-> dietScore,
        meditation_minutes_week |-> meditationMins,
        smoking_status |-> smokingStatus,
        alcohol_drinks_week |-> alcoholDrinks,
        added_sugar_grams_day |-> sugarGrams,
        sodium_grams_day |-> sodiumGrams,
        processed_food_servings_week |-> processedServings,
        social_connections_count |-> socialConnections,
        nature_minutes_week |-> natureMinutes,
        cultural_hours_week |-> culturalEngagement,
        purpose_meaning_score |-> purposeScore]

\* generateMonthlyTWABehaviors(personDemographics, month, season), whose
\* first Math.random() call is call number k of the run with seed s
generateMonthlyTWABehaviors(personDemographics, mo, season, s, k) ==
    LET demoFactors == calculateDemographicFactors(personDemographics)
        seasonalFactors == calculateSeasonalFactors(season)
        motionDays == generateMotionBehavior(demoFactors, seasonalFactors, Draw(s, k))
        sleepQuality == generateSleepBehavior(demoFactors, motionDays, Draw(s, k + 1), Draw(s, k + 2))
        hydration == generateHydrationBehavior(demoFactors, sleepQuality, Draw(s, k + 3))
        dietScore == generateDietBehavior(demoFactors, motionDays, Draw(s, k + 4))
        meditationMins == generateMeditationBehavior(demoFactors, dietScore, Draw(s, k + 5))
        smokingStatus == generateSmokingBehavior(demoFactors, Draw(s, k + 6))
        alcoholDrinks == generateAlcoholBehavior(demoFactors, smokingStatus, Draw(s, k + 7))
        sugarGrams == generateSugarBehavior(demoFactors, dietScore, Draw(s, k + 8))
        sodiumGrams == generateSodiumBehavior(demoFactors, dietScore, Draw(s, k + 9))
        processedServings == generateProcessedFoods(demoFactors, dietScore, Draw(s, k + 10))
        socialConnections == generateSocialConnections(demoFactors, Draw(s, k + 11))
        natureMinutes == generateNatureConnection(demoFactors, seasonalFactors, Draw(s, k + 12))
        culturalEngagement == generateCulturalActivities(demoFactors, Draw(s, k + 13))
        purposeScore == generatePurposeMeaning(demoFactors, socialConnections, meditationMins, Draw(s, k + 14))
    IN [motion_days_week |-> motionDays,
        sleep_hours |-> sleepQuality.hours,
        sleep_quality_score |-> sleepQuality.quality,
        hydration_cups_day |-> hydration,
        diet_mediterranean_score |-> dietScore,
        meditation_minutes_week |-> meditationMins,
        smoking_status |-> smokingStatus,
        alcohol_drinks_week |-> alcoholDrinks,
        added_sugar_grams_day |-> sugarGrams,
        sodium_grams_day |-> sodiumGrams,
        processed_food_servings_week |-> processedServings,
        social_connections_count |-> socialConnections,
        nature_minutes_week |-> natureMinutes,
        cultural_hours_week |-> culturalEngagement,
        purpose_meaning_score |-> purposeScore]

---------------------------------------------------------------------------
\* WellnessAgingOutcomeGenerator

\* researchEffects.biologicalAgeEffects, years per year, milli
biologicalAgeEffects ==
    [motion_high |-> 0 - 1200,
     diet_mediterranean |-> 0 - 2300,
     meditation_regular |-> 0 - 1800,
     smoking_current |-> 5300,
     purpose_high |-> 0 - 3100,
     social_connected |-> 0 - 1500,
     sleep_quality |-> 0 - 500,
     alcohol_excess |-> 2100,
     processed_foods |-> 1700]

\* variant of the mortalityRiskEffects table in which social isolation
\* carries a factor below 1
mortalityRiskEffectsIsolationProtective ==
    [purpose_high |-> 570,
     social_isolated |-> 910,
     smoking_current |-> 2240,
     exercise_regular |-> 720,
     diet_quality_high |-> 700,
     meditation_practice |-> 820]

\* researchEffects.mortalityRiskEffects, per-mille
mortalityRiskEffects ==
    [purpose_high |-> 570,
     social_isolated |-> 1910,
     smoking_current |-> 2240,
     exercise_regular |-> 720,
     diet_quality_high |-> 700,
     meditation_practice |-> 820]

\* variant of the annual budget that also charges the README's added-sugar
\* and sodium risk thresholds
ageModificationWithSugarAndSodium(behaviors) ==
    LET effects == biologicalAgeEffects
    IN   (IF behaviors.motion_days_week >= 4 THEN effects.motion_high ELSE 0)
       + (IF behaviors.diet_mediterranean_score >= 7000 THEN effects.diet_mediterranean ELSE 0)
       + (IF behaviors.meditation_minutes_week >= 150 THEN effects.meditation_regular ELSE 0)
       + (IF behaviors.sleep_quality_score >= 7000
          THEN Mul(effects.sleep_quality, behaviors.sleep_hours) ELSE 0)
       + (IF behaviors.purpose_meaning_score >= 8000 THEN effects.purpose_high ELSE 0)
       + (IF behaviors.social_connections_count >= 4 THEN effects.social_connected ELSE 0)
       - (IF behaviors.smoking_status = "Current" THEN effects.smoking_current ELSE 0)
       - (IF behaviors.alcohol_drinks_week > 14 THEN effects.alcohol_excess ELSE 0)
       - (IF behaviors.processed_food_servings_week > 10 THEN effects.processed_foods ELSE 0)
       - (IF behaviors.added_sugar_grams_day > 50 THEN effects.processed_foods ELSE 0)
       - (IF behaviors.sodium_grams_day > 6000 THEN effects.processed_foods ELSE 0)

\* the annual budget ageModification of calculateBiologicalAge, milli years
ageModification(behaviors) ==
    LET effects == biologicalAgeEffects
    IN   (IF behaviors.motion_days_week >= 4 THEN effects.motion_high ELSE 0)
       + (IF behaviors.diet_mediterranean_score >= 7000 THEN effects.diet_mediterranean ELSE 0)
       + (IF behaviors.meditation_minutes_week >= 150 THEN effects.meditation_regular ELSE 0)
       + (IF behaviors.sleep_quality_score >= 7000
          THEN Mul(effects.sleep_quality, behaviors.sleep_hours) ELSE 0)
       + (IF behaviors.purpose_meaning_score >= 8000 THEN effects.purpose_high ELSE 0)
       + (IF behaviors.social_connections_count >= 4 THEN effects.social_connected ELSE 0)
       - (IF behaviors.smoking_status = "Current" THEN effects.smoking_current ELSE 0)
       - (IF behaviors.alcohol_drinks_week > 14 THEN effects.alcohol_excess ELSE 0)
       - (IF behaviors.processed_food_servings_week > 10 THEN effects.processed_foods ELSE 0)

\* variant of calculateBiologicalAge that applies the annual budget whole,
\* without spreading it over monthsElapsed
calculateBiologicalAgeWholeBudget(chronologicalAge, behaviors, monthsElapsed) ==
    Max(18000, chronologicalAge + (monthsElapsed * 1000) \div 12 + ageModification(behaviors))

\* milli years
calculateBiologicalAge(chronologicalAge, behaviors, monthsElapsed) ==
    LET monthlyEffect == ageModification(behaviors) \div 12
        cumulativeEffect == monthlyEffect * monthsElapsed
        biologicalAge == chronologicalAge + (monthsElapsed * 1000) \div 12 + cumulativeEffect
    IN Max(18000, biologicalAge)

\* Math.pow(1.1, x) for x milli, per-mille: exp(x * ln 1.1) by its series,
\* carried in units of 1/10000 (ln 1.1 = 0.09531)
powOnePointOne(x) ==
    LET y == (x * 9531) \div 10000
        t2 == (y * y) \div 20000
        t3 == (t2 * y) \div 30000
        t4 == (t3 * y) \div 40000
    IN (10000 + y + t2 + t3 + t4) \div 10

\* milli
calculateMortalityRisk(d, behaviors, biologicalAge) ==
    LET effects == mortalityRiskEffects
        r1 == IF behaviors.purpose_meaning_score >= 8000 THEN Mul(1000, effects.purpose_high) ELSE 1000
        r2 == IF behaviors.motion_days_week >= 3 THEN Mul(r1, effects.exercise_regular) ELSE r1
        r3 == IF behaviors.diet_mediterranean_score >= 7000 THEN Mul(r2, effects.diet_quality_high) ELSE r2
        r4 == IF behaviors.meditation_minutes_week >= 150 THEN Mul(r3, effects.meditation_practice) ELSE r3
        r5 == IF behaviors.smoking_status = "Current" THEN Mul(r4, effects.smoking_current) ELSE r4
        r6 == IF behaviors.social_connections_count < 2 THEN Mul(r5, effects.social_isolated) ELSE r5
        ageEffect == powOnePointOne((biologicalAge - 30000) \div 10)
        riskScore == Mul(r6, ageEffect)
    IN Max(100, Min(10000, riskScore))

getBaseCRP(age, gender) ==
    (IF gender = "Female" THEN 2500 ELSE 2000) + ((age - 30000) * 50) \div 1000

getBaseIL6(age, gender) ==
    (IF gender = "Female" THEN 1800 ELSE 1500) + ((age - 30000) * 30) \div 1000

getBaseIGF1(age, gender) ==
    Max(100000, (IF gender = "Male" THEN 200000 ELSE 180000) - (age - 30000) * 2)

getBaseGDF15(age, gender) ==
    (IF gender = "Female" THEN 800000 ELSE 700000) + (age - 30000) * 15

getBaseCortisol(age, gender) ==
    (IF gender = "Female" THEN 12000 ELSE 10000) + (age - 30000) \div 10

\* all five milli; r is the one shared variation draw
generateBiomarkers(d, behaviors, biologicalAge, r) ==
    LET crp0 == getBaseCRP(d.age_numeric, d.gender)
        il60 == getBaseIL6(d.age_numeric, d.gender)
        igf10 == getBaseIGF1(d.age_numeric, d.gender)
        gdf15 == getBaseGDF15(d.age_numeric, d.gender)
        cortisol0 == getBaseCortisol(d.age_numeric, d.gender)
        exercise == behaviors.motion_days_week >= 4
        meditation == behaviors.meditation_minutes_week >= 150
        nature == behaviors.nature_minutes_week >= 120
        diet == behaviors.diet_mediterranean_score >= 7000
        crp1 == IF exercise THEN Mul(crp0, 750) ELSE crp0
        igf1 == IF exercise THEN Mul(igf10, 1150) ELSE igf10
        il61 == IF meditation THEN Mul(il60, 700) ELSE il60
        cortisol1 == IF meditation THEN Mul(cortisol0, 700) ELSE cortisol0
        cortisol2 == IF nature THEN Mul(cortisol1, 700) ELSE cortisol1
        crp2 == IF diet THEN Mul(crp1, 800) ELSE crp1
        il62 == IF diet THEN Mul(il61, 850) ELSE il61
        stressLevel == Max(0, 10000 - (behaviors.meditation_minutes_week * 1000) \div 30
                                    - (behaviors.nature_minutes_week * 1000) \div 60)
        cortisol3 == Mul(cortisol2, 1000 + stressLevel \div 10)
        variation == Noise(800, 400, r)
    IN [crp |-> Max(100, Mul(crp2, variation)),
        il6 |-> Max(100, Mul(il62, variation)),
        igf1 |-> Max(50000, Mul(igf1, variation)),
        gdf15 |-> Max(100000, Mul(gdf15, variation)),
        cortisol |-> Max(5000, Mul(cortisol3, variation))]

getBaseGripStrength(age, gender) ==
    Max(10000, (IF gender = "Male" THEN 45000 ELSE 28000) - ((age - 30000) * 3) \div 10)

getBaseGaitSpeed(age, gender) == Max(500, 1400 - (age - 30000) \div 200)

getBaseBalance(age, gender) == Max(1000, 8000 - (age - 30000) \div 50)

getBaseFrailty(age) == Min(1000, Max(0, (age - 30000) \div 100))

\* milli
calculateCognitiveScore(d, behaviors, biologicalAge) ==
    LET c0 == 100000 - (biologicalAge - 30000) \div 2
        c1 == Mul(c0, educationEffect(d.education, 800, 900, 1000, 1100, 1000))
        c2 == IF behaviors.motion_days_week >= 4 THEN Mul(c1, 1100) ELSE c1
        c3 == c2 + behaviors.meditation_minutes_week * 100
        c4 == c3 + behaviors.social_connections_count * 2000
    IN Max(50000, Min(150000, c4))

\* milli
calculateProcessingSpeed(d, behaviors, biologicalAge) ==
    LET p0 == 100000 - ((biologicalAge - 25000) * 3) \div 10
        p1 == IF behaviors.motion_days_week >= 4 THEN Mul(p0, 1050) ELSE p0
        p2 == p1 + (behaviors.hydration_cups_day - 6) * 1000
        p3 == IF behaviors.sleep_quality_score >= 7000 THEN Mul(p2, 1050) ELSE p2
    IN Max(50000, Min(150000, p3))

\* all six milli
generateFunctionalMeasures(d, behaviors, biologicalAge) ==
    LET exercise == behaviors.motion_days_week >= 4
        diet == behaviors.diet_mediterranean_score >= 7000
        sleep == behaviors.sleep_quality_score >= 7000
        social == behaviors.social_connections_count >= 4
        g0 == getBaseGripStrength(d.age_numeric, d.gender)
        g1 == IF exercise THEN Mul(g0, 1150) ELSE g0
        g2 == IF diet THEN Mul(g1, 1050) ELSE g1
        g3 == IF sleep THEN Mul(g2, 1050) ELSE g2
        s0 == getBaseGaitSpeed(d.age_numeric, d.gender)
        s1 == IF exercise THEN Mul(s0, 1100) ELSE s0
        s2 == IF diet THEN Mul(s1, 1050) ELSE s1
        s3 == IF sleep THEN Mul(s2, 1050) ELSE s2
        b0 == getBaseBalance(d.age_numeric, d.gender)
        b1 == IF exercise THEN Mul(b0, 1100) ELSE b0
        b2 == IF diet THEN Mul(b1, 1050) ELSE b1
        b3 == IF sleep THEN Mul(b2, 1050) ELSE b2
        f0 == getBaseFrailty(d.age_numeric)
        f1 == IF exercise THEN Mul(f0, 800) ELSE f0
        f2 == IF diet THEN Mul(f1, 900) ELSE f1
        f3 == IF sleep THEN Mul(f2, 950) ELSE f2
        f4 == IF social THEN Mul(f3, 900) ELSE f3
    IN [grip_strength |-> Max(10000, g3),
        gait_speed |-> Max(500, s3),
        balance |-> Max(1000, Min(10000, b3)),
        frailty |-> Max(0, Min(1000, f4)),
        cognitive |-> calculateCognitiveScore(d, behaviors, biologicalAge),
        processing_speed |-> calculateProcessingSpeed(d, behaviors, biologicalAge)]

\* all four milli
generatePsychosocialOutcomes(behaviors, biomarkers) ==
    LET lifeSatisfaction ==
            5000
          + ((behaviors.purpose_meaning_score - 5000) * 3) \div 10
          + (behaviors.social_connections_count - 3) * 200
          + (behaviors.motion_days_week - 3) * 100
          + behaviors.meditation_minutes_week * 2
        stress == Max(1000, 10000 - lifeSatisfaction - behaviors.meditation_minutes_week * 20)
        depressionRisk == Max(1000, (stress * 8) \div 10 - behaviors.social_connections_count * 500)
        socialSupport == Min(10000, behaviors.social_connections_count * 1500
                                    + (behaviors.purpose_meaning_score * 3) \div 10)
    IN [life_satisfaction |-> Max(1000, Min(10000, lifeSatisfaction)),
        stress |-> Max(1000, Min(10000, stress)),
        depression_risk |-> Max(1000, Min(10000, depressionRisk)),
        social_support |-> Max(1000, Min(10000, socialSupport))]

\* variant of calculateEstimatedLifespan without Math.max(50, Math.min(100, ...));
\* the lifespan domain of C6 rests on the clamp
calculateEstimatedLifespanUnclamped(d, mortalityRisk, r) ==
    LET baseLifespan == IF d.gender = "Female" THEN 81000 ELSE 76000
        adjustedLifespan == (baseLifespan * 1000) \div mortalityRisk
        variation == Noise(900, 200, r)
    IN Mul(adjustedLifespan, variation)

\* milli years; r is the variation draw
calculateEstimatedLifespan(d, mortalityRisk, r) ==
    LET baseLifespan == IF d.gender = "Female" THEN 81000 ELSE 76000
        adjustedLifespan == (baseLifespan * 1000) \div mortalityRisk
        variation == Noise(900, 200, r)
    IN Max(50000, Min(100000, Mul(adjustedLifespan, variation)))

\* Math.random() calls made by one generateAgingWellnessOutcomes call
DrawsPerOutcomes == 2

\* variant of generateAgingWellnessOutcomes that measures the acceleration
\* against the age the subject has reached in the observed month instead of
\* the baseline age
generateOutcomesAgainstCurrentAge(d, twaBehaviors, baselineAge, monthsElapsed, s, k) ==
    LET biologicalAge == calculateBiologicalAge(baselineAge, twaBehaviors, monthsElapsed)
        mortalityRisk == calculateMortalityRisk(d, twaBehaviors, biologicalAge)
        biomarkers == generateBiomarkers(d, twaBehaviors, biologicalAge, Draw(s, k))
        functionalMeasures == generateFunctionalMeasures(d, twaBehaviors, biologicalAge)
        psychosocialOutcomes == generatePsychosocialOutcomes(twaBehaviors, biomarkers)
    IN [biological_age_years |-> biologicalAge,
        biological_age_acceleration |->
            biologicalAge - (baselineAge + (monthsElapsed * 1000) \div 12),
        mortality_risk_score |-> mortalityRisk,
        estimated_lifespan_years |-> calculateEstimatedLifespan(d, mortalityRisk, Draw(s, k + 1)),
        crp_mg_l |-> biomarkers.crp,
        il6_pg_ml |-> biomarkers.il6,
        igf1_ng_ml |-> biomarkers.igf1,
        gdf15_pg_ml |-> biomarkers.gdf15,
        cortisol_ug_dl |-> biomarkers.cortisol,
        grip_strength_kg |-> functionalMeasures.grip_strength,
        gait_speed_ms |-> functionalMeasures.gait_speed,
        balance_score |-> functionalMeasures.balance,
        frailty_index |-> functionalMeasures.frailty,
        cognitive_composite_score |-> functionalMeasures.cognitive,
        processing_speed_score |-> functionalMeasures.processing_speed,
        life_satisfaction_score |-> psychosocialOutcomes.life_satisfaction,
        stress_level_score |-> psychosocialOutcomes.stress,
        depression_risk_score |-> psychosocialOutcomes.depression_risk,
        social_support_score |-> psychosocialOutcomes.social_support]

\* generateAgingWellnessOutcomes(demographics, twaBehaviors, baselineAge,
\* monthsElapsed), whose first Math.random() call is call number k
generateAgingWellnessOutcomes(d, twaBehaviors, baselineAge, monthsElapsed, s, k) ==
    LET biologicalAge == calculateBiologicalAge(baselineAge, twaBehaviors, monthsElapsed)
        mortalityRisk == calculateMortalityRisk(d, twaBehaviors, biologicalAge)
        biomarkers == generateBiomarkers(d, twaBehaviors, biologicalAge, Draw(s, k))
        functionalMeasures == generateFunctionalMeasures(d, twaBehaviors, biologicalAge)
        psychosocialOutcomes == generatePsychosocialOutcomes(twaBehaviors, biomarkers)
    IN [biological_age_years |-> biologicalAge,
        biological_age_acceleration |-> biologicalAge - baselineAge,
        mortality_risk_score |-> mortalityRisk,
        estimated_lifespan_years |-> calculateEstimatedLifespan(d, mortalityRisk, Draw(s, k + 1)),
        crp_mg_l |-> biomarkers.crp,
        il6_pg_ml |-> biomarkers.il6,
        igf1_ng_ml |-> biomarkers.igf1,
        gdf15_pg_ml |-> biomarkers.gdf15,
        cortisol_ug_dl |-> biomarkers.cortisol,
        grip_strength_kg |-> functionalMeasures.grip_strength,
        gait_speed_ms |-> functionalMeasures.gait_speed,
        balance_score |-> functionalMeasures.balance,
        frailty_index |-> functionalMeasures.frailty,
        cognitive_composite_score |-> functionalMeasures.cognitive,
        processing_speed_score |-> functionalMeasures.processing_speed,
        life_satisfaction_score |-> psychosocialOutcomes.life_satisfaction,
        stress_level_score |-> psychosocialOutcomes.stress,
        depression_risk_score |-> psychosocialOutcomes.depression_risk,
        social_support_score |-> psychosocialOutcomes.social_support]

---------------------------------------------------------------------------
\* LongitudinalTWADataGenerator: generation

\* variant of monthToSeason that reads the table one month late; the
\* month-to-season table of C8 rests on the index month % 12
monthToSeasonShifted(mo) ==
    LET seasons == <<"Winter", "Winter", "Spring", "Spring", "Spring", "Summer",
                     "Summer", "Summer", "Fall", "Fall", "Fall", "Winter">>
    IN seasons[((mo + 1) % 12) + 1]

monthToSeason(mo) ==
    LET seasons == <<"Winter", "Winter", "Spring", "Spring", "Spring", "Summer",
                     "Summer", "Summer", "Fall", "Fall", "Fall", "Winter">>
    IN seasons[(mo % 12) + 1]

\* variant of generateObservationDate whose year follows the months elapsed
generateObservationDateRolling(mo) ==
    LET year == 2024 + mo \div 12
        monthNum == (mo % 12) + 1
    IN toString(year) \o <<"-">> \o padStart(toString(monthNum), 2, "0") \o <<"-", "1", "5">>

\* `${year}-${monthNum.toString().padStart(2, '0')}-15`, one character each
generateObservationDate(mo) ==
    LET year == 2024
        monthNum == (mo % 12) + 1
    IN toString(year) \o <<"-">> \o padStart(toString(monthNum), 2, "0") \o <<"-", "1", "5">>

\* milli points
calculateHealthyAgingProfile(behaviors, outcomes) ==
    LET \* the three sub-scores in units of 1/1000000
        behavioralScore ==
            (behaviors.motion_days_week * 150000) \div 7
          + behaviors.diet_mediterranean_score * 15
          + (Min(behaviors.meditation_minutes_week, 300) * 100000) \div 300
        biologicalScore ==
            (Max(0, 85000 - outcomes.biological_age_years) * 200) \div 85
          + (1000 - Min(outcomes.mortality_risk_score, 1000)) * 200
        psychosocialScore ==
            outcomes.life_satisfaction_score * 10
          + behaviors.purpose_meaning_score * 10
        totalScore == (behavioralScore + biologicalScore + psychosocialScore) \div 10
    IN Min(100000, Max(0, totalScore))

\* variant of calculateBlueZoneSimilarity that does not divide the sum of the
\* factors by their number; the range of C7 rests on the division
calculateBlueZoneSimilaritySum(behaviors, d) ==
    LET similarityFactors ==
          << Min(behaviors.diet_mediterranean_score \div 8, 1000),
             Min((behaviors.motion_days_week * 1000) \div 5, 1000),
             Min((behaviors.meditation_minutes_week * 1000) \div 150, 1000),
             Min((behaviors.social_connections_count * 1000) \div 4, 1000),
             Min(behaviors.purpose_meaning_score \div 8, 1000),
             IF behaviors.alcohol_drinks_week <= 7 THEN 1000 ELSE 0,
             IF behaviors.smoking_status = "Never" THEN 1000 ELSE 0 >>
    IN SumSeq(similarityFactors) * 100

\* milli points
calculateBlueZoneSimilarity(behaviors, d) ==
    LET similarityFactors ==
          << Min(behaviors.diet_mediterranean_score \div 8, 1000),
             Min((behaviors.motion_days_week * 1000) \div 5, 1000),
             Min((behaviors.meditation_minutes_week * 1000) \div 150, 1000),
             Min((behaviors.social_connections_count * 1000) \div 4, 1000),
             Min(behaviors.purpose_meaning_score \div 8, 1000),
             IF behaviors.alcohol_drinks_week <= 7 THEN 1000 ELSE 0,
             IF behaviors.smoking_status = "Never" THEN 1000 ELSE 0 >>
    IN (SumSeq(similarityFactors) * 100) \div Len(similarityFactors)

\* variant of the object literal monthlyRecord whose sleep flag looks at
\* sleep_hours alone; the flag predicates of C9 rest on the literal
monthlyRecordSleepHoursOnly(p, mo, season, twaBehaviors, outcomes) ==
    [subject_id |-> p.id,
     month |-> mo,
     season |-> season,
     observation_date |-> generateObservationDate(mo),
     demographics |-> p,
     behaviors |-> twaBehaviors,
     outcomes |-> outcomes,
     meets_exercise_guidelines |-> twaBehaviors.motion_days_week >= 3,
     meets_sleep_guidelines |-> twaBehaviors.sleep_hours >= 7000,
     high_diet_quality |-> twaBehaviors.diet_mediterranean_score >= 7000,
     regular_meditation |-> twaBehaviors.meditation_minutes_week >= 150,
     strong_social_support |-> twaBehaviors.social_connections_count >= 4,
     high_purpose |-> twaBehaviors.purpose_meaning_score >= 8000,
     healthy_aging_profile |-> calculateHealthyAgingProfile(twaBehaviors, outcomes),
     blue_zone_similarity_score |-> calculateBlueZoneSimilarity(twaBehaviors, p)]

\* the object literal monthlyRecord
monthlyRecord(p, mo, season, twaBehaviors, outcomes) ==
    [subject_id |-> p.id,
     month |-> mo,
     season |-> season,
     observation_date |-> generateObservationDate(mo),
     demographics |-> p,
     behaviors |-> twaBehaviors,
     outcomes |-> outcomes,
     meets_exercise_guidelines |-> twaBehaviors.motion_days_week >= 3,
     meets_sleep_guidelines |-> twaBehaviors.sleep_hours >= 7000
                                /\ twaBehaviors.sleep_quality_score >= 6000,
     high_diet_quality |-> twaBehaviors.diet_mediterranean_score >= 7000,
     regular_meditation |-> twaBehaviors.meditation_minutes_week >= 150,
     strong_social_support |-> twaBehaviors.social_connections_count >= 4,
     high_purpose |-> twaBehaviors.purpose_meaning_score >= 8000,
     healthy_aging_profile |-> calculateHealthyAgingProfile(twaBehaviors, outcomes),
     blue_zone_similarity_score |-> calculateBlueZoneSimilarity(twaBehaviors, p)]

\* Math.random() calls made in one pass through the body of the month loop
DrawsPerRecord == DrawsPerBehaviors + DrawsPerOutcomes

\* variant of push that adds the record at the front; the order of C4 rests
\* on records being appended
unshift(records, record) == <<record>> \o records

\* completeDataset.push(monthlyRecord)
push(records, record) == Append(records, record)

---------------------------------------------------------------------------
\* JavaScript numbers inside the validation statistics
\*
\* The statistics of validateDataset add, multiply, divide and take square
\* roots of numbers, and each of those operations rounds its result to the
\* nearest representable number.  A number is modelled here as a binary
\* floating-point value m * 2^e whose significand m has SignificandBits bits
\* (an IEEE double has 53), or as NaN; every operation rounds to nearest,
\* ties to even, as IEEE 754 prescribes.  A non-zero number is normalised:
\* 2^(SignificandBits-1) <= |m| < 2^SignificandBits.

SignificandBits == 12

NaN == [nan |-> TRUE, m |-> 0, e |-> 0]
Zero == [nan |-> FALSE, m |-> 0, e |-> 0]

RECURSIVE BitLen(_)
BitLen(a) == IF a = 0 THEN 0 ELSE 1 + BitLen(a \div 2)

\* a >= 0 shifted right by k bits, rounded to nearest, ties to even
RoundToEven(a, k) ==
    IF k = 0 THEN a
    ELSE LET q == a \div (2 ^ k)
             r == a % (2 ^ k)
             half == 2 ^ (k - 1)
         IN IF r > half \/ (r = half /\ q % 2 = 1) THEN q + 1 ELSE q

\* the number nearest to the exact value mm * 2^ee
Normalise(mm, ee) ==
    LET a == Abs(mm)
        sign == IF mm < 0 THEN 0 - 1 ELSE 1
        len == BitLen(a)
        k == len - SignificandBits
        q == RoundToEven(a, Max(0, k))
    IN IF a = 0 THEN Zero
       ELSE IF k <= 0
            THEN [nan |-> FALSE, m |-> sign * a * (2 ^ (0 - k)), e |-> ee + k]
       ELSE IF q = 2 ^ SignificandBits
            THEN [nan |-> FALSE, m |-> sign * (q \div 2), e |-> ee + k + 1]
       ELSE [nan |-> FALSE, m |-> sign * q, e |-> ee + k]

FromInt(n) == Normalise(n, 0)

FNeg(a) == [a EXCEPT !.m = 0 - a.m]

FAbs(a) == [a EXCEPT !.m = Abs(a.m)]

Sign(n) == IF n < 0 THEN 0 - 1 ELSE IF n > 0 THEN 1 ELSE 0

\* a + b
FAdd(a, b) ==
    LET hi == IF a.e >= b.e THEN a ELSE b
        lo == IF a.e >= b.e THEN b ELSE a
        d == hi.e - lo.e
    IN IF a.nan \/ b.nan THEN NaN
       ELSE IF a.m = 0 THEN b
       ELSE IF b.m = 0 THEN a
       ELSE IF d <= SignificandBits + 1
            THEN Normalise(hi.m * (2 ^ d) + lo.m, lo.e)
       \* lo lies below the rounding position: it only breaks ties
       ELSE Normalise(hi.m * 4 + Sign(lo.m), hi.e - 2)

\* a - b
FSub(a, b) == FAdd(a, FNeg(b))

\* a * b
FMul(a, b) ==
    IF a.nan \/ b.nan THEN NaN ELSE Normalise(a.m * b.m, a.e + b.e)

\* the quotient of the integers n and d (d > 0), rounded once
FromRatio(n, d) ==
    LET a == Abs(n)
        s == 30 - BitLen(a)
        q == (a * (2 ^ s)) \div d
        sticky == IF (a * (2 ^ s)) % d = 0 THEN 0 ELSE 1
    IN IF n = 0 THEN Zero
       ELSE Normalise(Sign(n) * (2 * q + sticky), 0 - s - 1)

\* a / b; 0 / 0 is NaN (no statistic divides a non-zero number by zero)
FDiv(a, b) ==
    LET s == SignificandBits + 2
        q == (Abs(a.m) * (2 ^ s)) \div Abs(b.m)
        sticky == IF (Abs(a.m) * (2 ^ s)) % Abs(b.m) = 0 THEN 0 ELSE 1
    IN IF a.nan \/ b.nan \/ b.m = 0 THEN NaN
       ELSE IF a.m = 0 THEN Zero
       ELSE Normalise(Sign(a.m) * Sign(b.m) * (2 * q + sticky), a.e - b.e - s - 1)

\* the largest r with r * r <= n, found bit by bit from 2^bit downwards
RECURSIVE ISqrt(_, _, _)
ISqrt(n, r, bit) ==
    IF bit < 0 THEN r
    ELSE LET t == r + 2 ^ bit
         IN ISqrt(n, IF t * t <= n THEN t ELSE r, bit - 1)

\* Math.sqrt(a): NaN for a negative number
FSqrt(a) ==
    LET k == IF (a.e - (SignificandBits + 1)) % 2 = 0
             THEN SignificandBits + 1 ELSE SignificandBits + 2
        n == a.m * (2 ^ k)
        r == ISqrt(n, 0, SignificandBits + 1)
        sticky == IF r * r = n THEN 0 ELSE 1
    IN IF a.nan \/ a.m < 0 THEN NaN
       ELSE IF a.m = 0 THEN Zero
       ELSE Normalise(2 * r + sticky, ((a.e - k) \div 2) - 1)

\* a <= b, a < b, a === b; every comparison with NaN is false
FLe(a, b) == ~a.nan /\ ~b.nan /\ FSub(a, b).m <= 0
FLt(a, b) == ~a.nan /\ ~b.nan /\ FSub(a, b).m < 0
FEq(a, b) == ~a.nan /\ ~b.nan /\ a = b

\* Math.max(a, b): NaN when either argument is NaN
FMax(a, b) == IF a.nan \/ b.nan THEN NaN ELSE IF FLe(a, b) THEN b ELSE a

\* x.reduce((a, b) => a + b, 0) over a sequence of numbers
RECURSIVE FSum(_)
FSum(xs) == IF xs = <<>> THEN Zero ELSE FAdd(FSum(SubSeq(xs, 1, Len(xs) - 1)), xs[Len(xs)])

---------------------------------------------------------------------------
\* LongitudinalTWADataGenerator: validation

\* variant of firstRecords that keeps every record, as if the Map were
\* keyed by record rather than by subject_id
everyRecord(ds) == ds

\* the records that open a new key of the Map built by dataset.forEach in
\* validateDemographicAccuracy and validateLongitudinalCoherence, in
\* insertion order: the first record of each subject_id
RECURSIVE firstRecords(_)
firstRecords(ds) ==
    IF ds = <<>> THEN <<>>
    ELSE LET front == SubSeq(ds, 1, Len(ds) - 1)
             last == ds[Len(ds)]
         IN IF \E j \in 1 .. Len(front) : front[j].subject_id = last.subject_id
            THEN firstRecords(front)
            ELSE Append(firstRecords(front), last)

calculateDistribution(items) ==
    [item \in {items[i] : i \in 1 .. Len(items)} |->
        Cardinality({i \in 1 .. Len(items) : items[i] = item})]

calculateCorrelation(x, y) ==
    IF Len(x) # Len(y) \/ Len(x) = 0 THEN Zero
    ELSE LET n == FromInt(Len(x))
             sumX == FSum(x)
             sumY == FSum(y)
             sumXY == FSum([i \in 1 .. Len(x) |-> FMul(x[i], y[i])])
             sumXX == FSum([i \in 1 .. Len(x) |-> FMul(x[i], x[i])])
             sumYY == FSum([i \in 1 .. Len(y) |-> FMul(y[i], y[i])])
             numerator == FSub(FMul(n, sumXY), FMul(sumX, sumY))
             denominator == FSqrt(FMul(FSub(FMul(n, sumXX), FMul(sumX, sumX)),
                                       FSub(FMul(n, sumYY), FMul(sumY, sumY))))
         IN IF FEq(denominator, Zero) THEN Zero ELSE FDiv(numerator, denominator)

\* variant of calculateMeanDifference that subtracts the first mean from the
\* second
calculateMeanDifferenceReversed(group1, group2) ==
    IF Len(group1) = 0 \/ Len(group2) = 0 THEN Zero
    ELSE LET mean1 == FDiv(FSum(group1), FromInt(Len(group1)))
             mean2 == FDiv(FSum(group2), FromInt(Len(group2)))
         IN FSub(mean2, mean1)

calculateMeanDifference(group1, group2) ==
    IF Len(group1) = 0 \/ Len(group2) = 0 THEN Zero
    ELSE LET mean1 == FDiv(FSum(group1), FromInt(Len(group1)))
             mean2 == FDiv(FSum(group2), FromInt(Len(group2)))
         IN FSub(mean1, mean2)

\* Object.values(counts).reduce((sum, count) => sum + count, 0)
RECURSIVE totalCount(_)
totalCount(counts) ==
    IF DOMAIN counts = {} THEN 0
    ELSE LET key == CHOOSE k \in DOMAIN counts : TRUE
         IN counts[key] + totalCount([k \in DOMAIN counts \ {key} |-> counts[k]])

\* counts[key] || 0
countOf(counts, key) == IF key \in DOMAIN counts THEN counts[key] ELSE 0

\* the allKeys.forEach loop of kolmogorovSmirnovTest over the keys still to visit
RECURSIVE maxDifferenceOver(_, _, _, _, _)
maxDifferenceOver(keys, observed, totalObserved, expected, totalExpected) ==
    IF keys = {} THEN Zero
    ELSE LET key == CHOOSE k \in keys : TRUE
             observedProp == FDiv(FromInt(countOf(observed, key)), FromInt(totalObserved))
             expectedProp == FDiv(FromInt(countOf(expected, key)), FromInt(totalExpected))
         IN FMax(maxDifferenceOver(keys \ {key}, observed, totalObserved,
                                   expected, totalExpected),
                 FAbs(FSub(observedProp, expectedProp)))

\* variant of kolmogorovSmirnovTest that returns 0 when nothing was observed;
\* the NaN of C3 rests on the division by totalObserved = 0
kolmogorovSmirnovTestGuarded(observed, expected) ==
    LET totalObserved == totalCount(observed)
        totalExpected == totalCount(expected)
        allKeys == DOMAIN observed \cup DOMAIN expected
    IN IF totalObserved = 0 THEN Zero
       ELSE maxDifferenceOver(allKeys, observed, totalObserved, expected, totalExpected)

kolmogorovSmirnovTest(observed, expected) ==
    LET totalObserved == totalCount(observed)
        totalExpected == totalCount(expected)
        allKeys == DOMAIN observed \cup DOMAIN expected
    IN maxDifferenceOver(allKeys, observed, totalObserved, expected, totalExpected)

getExpectedAgeDistribution ==
    ("18-24" :> 11) @@ ("25-34" :> 14) @@ ("35-44" :> 13) @@ ("45-54" :> 12)
    @@ ("55-64" :> 13) @@ ("65-74" :> 11) @@ ("75+" :> 7)

educationToNumeric(education) ==
    CASE education = "Less than HS" -> 1
      [] education = "High School" -> 2
      [] education = "Some College" -> 3
      [] education = "Bachelor+" -> 4
      [] OTHER -> 2

fitnessToNumeric(fitness) ==
    CASE fitness = "Low" -> 1
      [] fitness = "Medium" -> 2
      [] fitness = "High" -> 3
      [] OTHER -> 2

\* a stored quantity kept in thousandths, as the number the program holds
Milli(v) == FromRatio(v, 1000)

validateDemographicAccuracy(ds) ==
    LET subjects == firstRecords(ds)
        demos == [i \in DOMAIN subjects |-> subjects[i].demographics]
        ageGroups == [i \in DOMAIN demos |-> demos[i].age_group]
        ageDistribution == calculateDistribution(ageGroups)
        incomeEducationCorr ==
            calculateCorrelation(
                [i \in DOMAIN demos |-> FromInt(demos[i].income_numeric)],
                [i \in DOMAIN demos |-> FromInt(educationToNumeric(demos[i].education))])
        fitnessAgeCorr ==
            calculateCorrelation(
                [i \in DOMAIN demos |-> Milli(demos[i].age_numeric)],
                [i \in DOMAIN demos |-> FromInt(fitnessToNumeric(demos[i].fitness_level))])
    IN [age_distribution_ks_test |->
            kolmogorovSmirnovTest(ageDistribution, getExpectedAgeDistribution),
        income_education_correlation |-> incomeEducationCorr,
        fitness_age_relationship |-> fitnessAgeCorr]

validateBehaviorCorrelations(ds) ==
    LET exerciseSleepCorr ==
            calculateCorrelation(
                [i \in DOMAIN ds |-> FromInt(ds[i].behaviors.motion_days_week)],
                [i \in DOMAIN ds |-> Milli(ds[i].behaviors.sleep_quality_score)])
        dietMeditationCorr ==
            calculateCorrelation(
                [i \in DOMAIN ds |-> Milli(ds[i].behaviors.diet_mediterranean_score)],
                [i \in DOMAIN ds |-> FromInt(ds[i].behaviors.meditation_minutes_week)])
        socialPurposeCorr ==
            calculateCorrelation(
                [i \in DOMAIN ds |-> FromInt(ds[i].behaviors.social_connections_count)],
                [i \in DOMAIN ds |-> Milli(ds[i].behaviors.purpose_meaning_score)])
    IN [exercise_sleep_correlation |-> exerciseSleepCorr,
        diet_meditation_correlation |-> dietMeditationCorr,
        social_purpose_correlation |-> socialPurposeCorr]

\* group.map(r => r.outcomes.biological_age_years) and its like: one outcome
\* field of every record of a group
outcomeOf(group, field) == [i \in DOMAIN group |-> Milli(group[i].outcomes[field])]

validateOutcomeValidity(ds) ==
    LET highExercise == SelectSeq(ds, LAMBDA r : r.behaviors.motion_days_week >= 4)
        lowExercise == SelectSeq(ds, LAMBDA r : r.behaviors.motion_days_week < 2)
        exerciseEffect ==
            IF Len(highExercise) > 0 /\ Len(lowExercise) > 0
            THEN calculateMeanDifference(outcomeOf(highExercise, "biological_age_years"),
                                         outcomeOf(lowExercise, "biological_age_years"))
            ELSE Zero
        smokers == SelectSeq(ds, LAMBDA r : r.behaviors.smoking_status = "Current")
        nonSmokers == SelectSeq(ds, LAMBDA r : r.behaviors.smoking_status = "Never")
        smokingEffect ==
            IF Len(smokers) > 0 /\ Len(nonSmokers) > 0
            THEN calculateMeanDifference(outcomeOf(smokers, "mortality_risk_score"),
                                         outcomeOf(nonSmokers, "mortality_risk_score"))
            ELSE Zero
        highPurpose == SelectSeq(ds, LAMBDA r : r.behaviors.purpose_meaning_score >= 8000)
        lowPurpose == SelectSeq(ds, LAMBDA r : r.behaviors.purpose_meaning_score <= 4000)
        purposeEffect ==
            IF Len(highPurpose) > 0 /\ Len(lowPurpose) > 0
            THEN calculateMeanDifference(outcomeOf(highPurpose, "estimated_lifespan_years"),
                                         outcomeOf(lowPurpose, "estimated_lifespan_years"))
            ELSE Zero
    IN [biological_age_effects |-> exerciseEffect,
        mortality_risk_factors |-> smokingEffect,
        purpose_longevity_relationship |-> purposeEffect]

\* records.map(r => r.behaviors.motion_days_week)
motionDaysOf(records) == [i \in DOMAIN records |-> FromInt(records[i].behaviors.motion_days_week)]

calculateSeasonalVariations(ds) ==
    LET seasonalData ==
          << SelectSeq(ds, LAMBDA r : r.season = "Spring"),
             SelectSeq(ds, LAMBDA r : r.season = "Summer"),
             SelectSeq(ds, LAMBDA r : r.season = "Fall"),
             SelectSeq(ds, LAMBDA r : r.season = "Winter") >>
        seasonalMeans ==
            [i \in DOMAIN seasonalData |->
                FDiv(FSum(motionDaysOf(seasonalData[i])), FromInt(Len(seasonalData[i])))]
        overallMean == FDiv(FSum(seasonalMeans), FromInt(Len(seasonalMeans)))
        variance ==
            FDiv(FSum([i \in DOMAIN seasonalMeans |->
                          FMul(FSub(seasonalMeans[i], overallMean),
                               FSub(seasonalMeans[i], overallMean))]),
                 FromInt(Len(seasonalMeans)))
    IN FSqrt(variance)

calculateLinearSlope(x, y) ==
    IF Len(x) # Len(y) \/ Len(x) < 2 THEN Zero
    ELSE LET n == FromInt(Len(x))
             sumX == FSum(x)
             sumY == FSum(y)
             sumXY == FSum([i \in 1 .. Len(x) |-> FMul(x[i], y[i])])
             sumXX == FSum([i \in 1 .. Len(x) |-> FMul(x[i], x[i])])
             slope == FDiv(FSub(FMul(n, sumXY), FMul(sumX, sumY)),
                           FSub(FMul(n, sumXX), FMul(sumX, sumX)))
         IN IF slope.nan THEN Zero ELSE slope

calculateVariance(values) ==
    IF Len(values) = 0 THEN Zero
    ELSE LET mean == FDiv(FSum(values), FromInt(Len(values)))
             squaredDiffs == [i \in DOMAIN values |->
                                 FMul(FSub(values[i], mean), FSub(values[i], mean))]
         IN FDiv(FSum(squaredDiffs), FromInt(Len(values)))

\* subjectRecords.sort((a, b) => a.month - b.month): a stable insertion sort
RECURSIVE sortByMonth(_)
sortByMonth(records) ==
    IF records = <<>> THEN <<>>
    ELSE LET sorted == sortByMonth(SubSeq(records, 1, Len(records) - 1))
             last == records[Len(records)]
             before == SelectSeq(sorted, LAMBDA r : r.month <= last.month)
             after == SelectSeq(sorted, LAMBDA r : r.month > last.month)
         IN before \o <<last>> \o after

\* the slope computed for one subject by the forEach of calculateAgingTrajectories
subjectSlope(subjectRecords) ==
    LET sortedRecords == sortByMonth(subjectRecords)
        ages == outcomeOf(sortedRecords, "biological_age_years")
        months == [i \in DOMAIN sortedRecords |-> FromInt(sortedRecords[i].month)]
    IN calculateLinearSlope(months, ages)

\* variant of calculateAgingTrajectories without the early return for
\* subjects with fewer than 2 records
calculateAgingTrajectoriesOverAll(subjectGroups) ==
    LET slopes == [i \in DOMAIN subjectGroups |-> subjectSlope(subjectGroups[i])]
        counted == SelectSeq(slopes, LAMBDA slope : ~slope.nan)
        totalSlope == FSum(counted)
        validSubjects == Len(counted)
    IN IF validSubjects > 0 THEN FDiv(totalSlope, FromInt(validSubjects)) ELSE Zero

calculateAgingTrajectories(subjectGroups) ==
    LET considered == SelectSeq(subjectGroups, LAMBDA subjectRecords : Len(subjectRecords) >= 2)
        slopes == [i \in DOMAIN considered |-> subjectSlope(considered[i])]
        counted == SelectSeq(slopes, LAMBDA slope : ~slope.nan)
        totalSlope == FSum(counted)
        validSubjects == Len(counted)
    IN IF validSubjects > 0 THEN FDiv(totalSlope, FromInt(validSubjects)) ELSE Zero

\* the stability computed for one subject by the forEach of calculateBehaviorStability
subjectStability(subjectRecords) ==
    LET sortedRecords == sortByMonth(subjectRecords)
        behaviors == motionDaysOf(sortedRecords)
        variance == calculateVariance(behaviors)
        mean == FDiv(FSum(behaviors), FromInt(Len(behaviors)))
    IN IF FLt(Zero, mean)
       THEN FSub(FromInt(1), FDiv(variance, FMul(mean, mean)))
       ELSE Zero

calculateBehaviorStability(subjectGroups) ==
    LET considered == SelectSeq(subjectGroups, LAMBDA subjectRecords : Len(subjectRecords) >= 2)
        stabilities == [i \in DOMAIN considered |-> subjectStability(considered[i])]
        totalStability == FSum(stabilities)
        validSubjects == Len(stabilities)
    IN IF validSubjects > 0 THEN FDiv(totalStability, FromInt(validSubjects)) ELSE Zero

\* the arrays alive in validateLongitudinalCoherence once the forEach has
\* grouped the records: the caller's dataset array and one new array per
\* subject, filled by push with the records of the dataset
groupBySubject(ds) ==
    LET subjects == firstRecords(ds)
    IN [dataset |-> ds,
        subjectGroups |->
            [i \in DOMAIN subjects |->
                SelectSeq(ds, LAMBDA r : r.subject_id = subjects[i].subject_id)]]

\* a helper that sorts the array it was handed the records of
sortDatasetInPlace(arrays) ==
    [arrays EXCEPT !.dataset = IF Len(@) < 2 THEN @ ELSE sortByMonth(@)]

\* subjectRecords.sort(...) in the forEach of calculateAgingTrajectories and
\* of calculateBehaviorStability: Array.prototype.sort sorts the array it
\* is called on, here each subject's array of 2 records or more
sortSubjectGroupsInPlace(arrays) ==
    [arrays EXCEPT !.subjectGroups =
        [i \in DOMAIN @ |-> IF Len(@[i]) < 2 THEN @[i] ELSE sortByMonth(@[i])]]

validateLongitudinalCoherence(ds) ==
    LET subjectGroups == groupBySubject(ds).subjectGroups
        seasonalVariations == calculateSeasonalVariations(ds)
        agingTrajectories == calculateAgingTrajectories(subjectGroups)
        behaviorStability == calculateBehaviorStability(subjectGroups)
    IN [seasonal_variations |-> seasonalVariations,
        aging_trajectories |-> agingTrajectories,
        behavior_stability |-> behaviorStability]

validateDataset(ds) ==
    [demographic_accuracy |-> validateDemographicAccuracy(ds),
     behavior_correlations |-> validateBehaviorCorrelations(ds),
     outcome_validity |-> validateOutcomeValidity(ds),
     longitudinal_coherence |-> validateLongitudinalCoherence(ds)]

\* the arrays as validateDataset leaves them
arraysAfterValidation(ds) == sortSubjectGroupsInPlace(groupBySubject(ds))

---------------------------------------------------------------------------
\* The program: one request handled by App.handleGenerateDataset, followed
\* through generateCompleteDataset one loop pass at a time

\* the DatasetConfig values a request may carry (export_format plays no part
\* in generation or validation)
Configs ==
    [n_subjects : (0 - 1) .. MaxSubjects,
     months : (0 - 1) .. MaxMonths,
     include_validation : BOOLEAN]

\* useState<... | null>(null)
null == <<>>

\* the App component as mounted, with the request the user is about to submit
Init ==
    /\ pc = "idle"
    /\ config \in Configs
    /\ seed \in 0 .. (NumSeeds - 1)
    /\ draws = 0
    /\ demographics = <<>>
    /\ person = 1
    /\ month = 0
    /\ completeDataset = <<>>
    /\ lastSeason = "none"
    /\ dataset = <<>>
    /\ isGenerating = FALSE
    /\ validationResults = null
    /\ error = null

\* handleGenerateDataset up to the call of generateCompleteDataset
HandleGenerateDataset ==
    /\ pc = "idle"
    /\ isGenerating' = TRUE
    /\ error' = null
    /\ pc' = "generate"
    /\ UNCHANGED <<config, seed, draws, demographics, person, month,
                   completeDataset, lastSeason, dataset, validationResults>>

\* generateCompleteDataset up to the first pass of the loop over demographics
GenerateDemographics ==
    /\ pc = "generate"
    /\ demographics' = generateCorrelatedDemographics(config.n_subjects, seed, draws)
    /\ draws' = draws + DrawsPerProfile * Max(0, config.n_subjects)
    /\ completeDataset' = <<>>
    /\ person' = 1
    /\ month' = 0
    /\ pc' = "loop"
    /\ UNCHANGED <<config, seed, lastSeason, dataset, isGenerating,
                   validationResults, error>>

\* one pass through the body of the month loop; the first Math.random() call
\* of the pass is call number draws of the run
GenerateRecord ==
    /\ pc = "loop"
    /\ person <= Len(demographics)
    /\ month < config.months
    /\ LET p == demographics[person]
           baselineAge == p.age_numeric
           season == monthToSeason(month)
           twaBehaviors == generateMonthlyTWABehaviors(p, month, season, seed, draws)
           outcomes == generateAgingWellnessOutcomes(p, twaBehaviors, baselineAge, month,
                                                     seed, draws + DrawsPerBehaviors)
       IN /\ completeDataset' =
                 push(completeDataset,
                      monthlyRecord(p, month, season, twaBehaviors, outcomes))
          /\ lastSeason' = season
    /\ draws' = draws + DrawsPerRecord
    /\ month' = month + 1
    /\ UNCHANGED <<pc, config, seed, demographics, person, dataset,
                   isGenerating, validationResults, error>>

\* the month loop ends for this person; the outer loop moves to the next one
NextPerson ==
    /\ pc = "loop"
    /\ person <= Len(demographics)
    /\ month >= config.months
    /\ person' = person + 1
    /\ month' = 0
    /\ UNCHANGED <<pc, config, seed, draws, demographics, completeDataset,
                   lastSeason, dataset, isGenerating, validationResults, error>>

\* variant of the handler's step after generateCompleteDataset that calls
\* validateDataset without reading config.include_validation
ReturnDatasetValidateAlways ==
    /\ pc = "loop"
    /\ person > Len(demographics)
    /\ dataset' = completeDataset
    /\ pc' = "validate"
    /\ UNCHANGED <<config, seed, draws, demographics, person, month,
                   completeDataset, lastSeason, isGenerating, validationResults, error>>

\* return completeDataset; setDataset(generatedDataset);
\* if (config.include_validation) ...
ReturnDataset ==
    /\ pc = "loop"
    /\ person > Len(demographics)
    /\ dataset' = completeDataset
    /\ pc' = IF config.include_validation THEN "validate" ELSE "finally"
    /\ UNCHANGED <<config, seed, draws, demographics, person, month,
                   completeDataset, lastSeason, isGenerating, validationResults, error>>

\* validateDataset(generatedDataset); setValidationResults(validation).
\* generatedDataset and the dataset of the App state are one array.
ValidateDataset ==
    /\ pc = "validate"
    /\ validationResults' = <<validateDataset(completeDataset)>>
    /\ completeDataset' = arraysAfterValidation(completeDataset).dataset
    /\ dataset' = completeDataset'
    /\ pc' = "finally"
    /\ UNCHANGED <<config, seed, draws, demographics, person, month,
                   lastSeason, isGenerating, error>>

\* finally { setIsGenerating(false) }
Finally ==
    /\ pc = "finally"
    /\ isGenerating' = FALSE
    /\ pc' = "done"
    /\ UNCHANGED <<config, seed, draws, demographics, person, month,
                   completeDataset, lastSeason, dataset, validationResults, error>>

Next ==
    \/ HandleGenerateDataset
    \/ GenerateDemographics
    \/ GenerateRecord
    \/ NextPerson
    \/ ReturnDataset
    \/ ValidateDataset
    \/ Finally

Spec == Init /\ [][Next]_vars

---------------------------------------------------------------------------
\* The App component over a sequence of requests

\* the sizes of the requests of a sequence
MaxRequestSubjects == 1
MaxRequestMonths == 1
MaxRequestSeeds == 1

RequestConfigs ==
    [n_subjects : 0 .. MaxRequestSubjects,
     months : 1 .. MaxRequestMonths,
     include_validation : BOOLEAN]

InitRequests ==
    /\ Init
    /\ config \in RequestConfigs
    /\ seed \in 1 .. MaxRequestSeeds

\* a catch block that keeps what was generated before the exception
CatchKeepingPartialDataset ==
    /\ pc \in {"generate", "loop"}
    /\ error' = <<"generation failed">>
    /\ dataset' = completeDataset
    /\ pc' = "finally"
    /\ UNCHANGED <<config, seed, draws, demographics, person, month,
                   completeDataset, lastSeason, isGenerating, validationResults>>

\* generateCompleteDataset throws (an allocation that fails, say) and the
\* catch block of handleGenerateDataset stores the message
CatchGenerationError ==
    /\ pc \in {"generate", "loop"}
    /\ error' = <<"generation failed">>
    /\ pc' = "finally"
    /\ UNCHANGED <<config, seed, draws, demographics, person, month,
                   completeDataset, lastSeason, dataset, isGenerating, validationResults>>

\* the handler has finished, the generate button is enabled again and the
\* user submits the form with another config. The locals of the finished
\* call are gone; the stream of Math.random() goes on where it stood (Draw
\* reads the call number modulo 3).
SubmitNextRequest ==
    /\ pc = "done"
    /\ ~isGenerating
    /\ config' \in RequestConfigs
    /\ draws' = draws % 3
    /\ demographics' = <<>>
    /\ person' = 1
    /\ month' = 0
    /\ completeDataset' = <<>>
    /\ lastSeason' = "none"
    /\ pc' = "idle"
    /\ UNCHANGED <<seed, dataset, isGenerating, validationResults, error>>

NextRequests ==
    \/ Next
    \/ CatchGenerationError
    \/ SubmitNextRequest

SpecRequests == InitRequests /\ [][NextRequests]_vars

---------------------------------------------------------------------------
\* Properties

\* generateCompleteDataset has returned and App holds what it returned
returned == pc \in {"validate", "finally", "done"}

\* every position of a sequence
Positions(xs) == 1 .. Len(xs)

\* the record the month loop pushed last
lastRecord == completeDataset[Len(completeDataset)]

\* the subject_id values that occur in a record collection
subjectIds(ds) == {ds[i].subject_id : i \in Positions(ds)}

\* C1: for a config with n_subjects >= 1 and months >= 1 the returned dataset
\* has exactly n_subjects * months records and exactly n_subjects distinct
\* subject_id values, and each subject_id has exactly one record for each
\* month index 0 .. months-1.
C1_RecordPerSubjectMonth ==
    (returned /\ config.n_subjects >= 1 /\ config.months >= 1) =>
        /\ Len(dataset) = config.n_subjects * config.months
        /\ Cardinality(subjectIds(dataset)) = config.n_subjects
        /\ \A id \in subjectIds(dataset) :
           \A mo \in 0 .. (config.months - 1) :
               Cardinality({i \in Positions(dataset) :
                               dataset[i].subject_id = id /\ dataset[i].month = mo}) = 1
        /\ \A i \in Positions(dataset) : dataset[i].month \in 0 .. (config.months - 1)

C1_Witness ==
    /\ pc = "done"
    /\ config.n_subjects = MaxSubjects
    /\ config.months = MaxMonths
    /\ Len(dataset) = MaxSubjects * MaxMonths
    /\ Cardinality(subjectIds(dataset)) = MaxSubjects

report == validationResults[1]

profileIndex(r) == CHOOSE k \in Positions(demographics) : demographics[k].id = r.subject_id

\* C4: in the returned dataset records are grouped by subject in
\* profile-generation order and months increase strictly within a subject:
\* for positions i < j either both
\* records have the same subject and month(i) < month(j), or record i's
\* subject was generated before record j's and no record of record i's
\* subject appears after position j.
C4_GroupedBySubjectMonthsAscending ==
    returned =>
    \A i \in Positions(completeDataset) : \A j \in (i + 1) .. Len(completeDataset) :
        i < j =>
            LET a == completeDataset[i]
                b == completeDataset[j]
            IN \/ a.subject_id = b.subject_id /\ a.month < b.month
               \/ /\ a.subject_id # b.subject_id
                  /\ \E k \in Positions(demographics) : demographics[k].id = a.subject_id
                  /\ \E k \in Positions(demographics) : demographics[k].id = b.subject_id
                  /\ profileIndex(a) < profileIndex(b)
                  /\ \A l \in (j + 1) .. Len(completeDataset) :
                         l > j => completeDataset[l].subject_id # a.subject_id

C4_Witness ==
    /\ returned
    /\ dataset = completeDataset
    /\ Len(dataset) = MaxSubjects * MaxMonths
    /\ dataset[1].subject_id # dataset[Len(dataset)].subject_id
    /\ dataset[1].month < dataset[MaxMonths].month

\* the documented domain of a behavior vector (real-valued fields in thousandths)
behaviorsInDomain(b) ==
    /\ b.motion_days_week \in 0 .. 7
    /\ b.sleep_hours >= 4000 /\ b.sleep_hours <= 10000
    /\ b.sleep_quality_score >= 1000 /\ b.sleep_quality_score <= 10000
    /\ b.hydration_cups_day \in 2 .. 12
    /\ b.diet_mediterranean_score >= 1000 /\ b.diet_mediterranean_score <= 10000
    /\ b.meditation_minutes_week \in 0 .. 300
    /\ b.smoking_status \in {"Never", "Former", "Current"}
    /\ b.alcohol_drinks_week \in 0 .. 35
    /\ b.added_sugar_grams_day \in 10 .. 150
    /\ b.sodium_grams_day >= 1000 /\ b.sodium_grams_day <= 8000
    /\ b.processed_food_servings_week \in 0 .. 20
    /\ b.social_connections_count \in 0 .. 10
    /\ b.nature_minutes_week \in 0 .. 300
    /\ b.cultural_hours_week \in 0 .. 20
    /\ b.purpose_meaning_score >= 1000 /\ b.purpose_meaning_score <= 10000

\* C5: every behavior vector returned by generateMonthlyTWABehaviors has every
\* field inside its documented domain.
C5_BehaviorsInDomain ==
    \A i \in Positions(completeDataset) : behaviorsInDomain(completeDataset[i].behaviors)

\* a dataset with a month of sleep on the upper end of its domain and a
\* month with the purpose score on the lower end of its domain
C5_Witness ==
    /\ \E i \in Positions(completeDataset) :
           completeDataset[i].behaviors.sleep_hours = 10000
    /\ \E i \in Positions(completeDataset) :
           completeDataset[i].behaviors.purpose_meaning_score = 1000

\* the documented domain of an outcome vector (thousandths)
outcomesInDomain(o) ==
    /\ o.biological_age_years >= 18000
    /\ o.mortality_risk_score >= 100 /\ o.mortality_risk_score <= 10000
    /\ o.estimated_lifespan_years >= 50000 /\ o.estimated_lifespan_years <= 100000
    /\ o.crp_mg_l >= 100
    /\ o.il6_pg_ml >= 100
    /\ o.igf1_ng_ml >= 50000
    /\ o.gdf15_pg_ml >= 100000
    /\ o.cortisol_ug_dl >= 5000
    /\ o.grip_strength_kg >= 10000
    /\ o.gait_speed_ms >= 500
    /\ o.balance_score >= 1000 /\ o.balance_score <= 10000
    /\ o.frailty_index >= 0 /\ o.frailty_index <= 1000
    /\ o.cognitive_composite_score >= 50000 /\ o.cognitive_composite_score <= 150000
    /\ o.processing_speed_score >= 50000 /\ o.processing_speed_score <= 150000
    /\ o.life_satisfaction_score >= 1000 /\ o.life_satisfaction_score <= 10000
    /\ o.stress_level_score >= 1000 /\ o.stress_level_score <= 10000
    /\ o.depression_risk_score >= 1000 /\ o.depression_risk_score <= 10000
    /\ o.social_support_score >= 1000 /\ o.social_support_score <= 10000

\* C6: every outcome vector returned by generateAgingWellnessOutcomes lies in
\* its documented domain: biological age >= 18, mortality risk in [0.1, 10],
\* lifespan in [50, 100], the five biomarkers and grip strength and gait speed
\* at or above their floors, balance in [1, 10], frailty in [0, 1], both
\* cognitive scores in [50, 150], the four psychosocial scores in [1, 10].
C6_OutcomesInDomain ==
    \A i \in Positions(completeDataset) : outcomesInDomain(completeDataset[i].outcomes)

\* outcomes that follow an in-domain behavior vector after a year and have
\* the biological age on its floor, and outcomes with the lifespan on its cap
C6_Witness ==
    /\ \E i \in Positions(completeDataset) :
           /\ completeDataset[i].month >= 12
           /\ behaviorsInDomain(completeDataset[i].behaviors)
           /\ completeDataset[i].outcomes.biological_age_years = 18000
    /\ \E i \in Positions(completeDataset) :
           completeDataset[i].outcomes.estimated_lifespan_years = 100000

\* C7: in every record healthy_aging_profile and blue_zone_similarity_score
\* lie in [0, 100].
C7_CompositesInRange ==
    \A i \in Positions(completeDataset) :
        /\ completeDataset[i].healthy_aging_profile >= 0
        /\ completeDataset[i].healthy_aging_profile <= 100000
        /\ completeDataset[i].blue_zone_similarity_score >= 0
        /\ completeDataset[i].blue_zone_similarity_score <= 100000

\* a record close to the Blue Zone pattern and one that matches less than
\* half of it
C7_Witness ==
    /\ \E i \in Positions(completeDataset) :
           /\ completeDataset[i].blue_zone_similarity_score > 85000
           /\ completeDataset[i].healthy_aging_profile > 50000
    /\ \E i \in Positions(completeDataset) :
           completeDataset[i].blue_zone_similarity_score < 50000

\* the season table the program is documented to follow
seasonOfMonth(mo) ==
    LET m == mo % 12
    IN CASE m \in {0, 1, 11} -> "Winter"
         [] m \in {2, 3, 4} -> "Spring"
         [] m \in {5, 6, 7} -> "Summer"
         [] m \in {8, 9, 10} -> "Fall"

\* C8: the season of every record is the fixed function of month mod 12
\* (0, 1, 11 Winter; 2, 3, 4 Spring; 5, 6, 7 Summer; 8, 9, 10 Fall), so a
\* record with month 0 has season Winter, and the season passed to the
\* behavior sampler is the season stored in the record.
C8_SeasonOfMonth ==
    /\ \A i \in Positions(completeDataset) :
           /\ completeDataset[i].season = seasonOfMonth(completeDataset[i].month)
           /\ completeDataset[i].month = 0 => completeDataset[i].season = "Winter"
    /\ completeDataset # <<>> =>
           lastSeason = completeDataset[Len(completeDataset)].season

\* a second-year record: month 12 is Winter again, after a Winter month 11
C8_Witness ==
    /\ completeDataset # <<>>
    /\ completeDataset[Len(completeDataset)].month = 12
    /\ completeDataset[Len(completeDataset)].season = "Winter"
    /\ lastSeason = "Winter"
    /\ \E i \in Positions(completeDataset) :
           completeDataset[i].month = 10 /\ completeDataset[i].season = "Fall"

\* C9: recomputing the six compliance flags and the two composite scores from
\* a stored record's own behaviors and outcomes reproduces the stored values;
\* the flags are motion_days_week >= 3, (sleep_hours >= 7 and
\* sleep_quality_score >= 6), diet_mediterranean_score >= 7,
\* meditation_minutes_week >= 150, social_connections_count >= 4,
\* purpose_meaning_score >= 8; and no derived value consumes a random draw:
\* the draws made are those of the profiles and of the behaviors and outcomes.
C9_DerivedValuesRecomputable ==
    /\ \A i \in Positions(completeDataset) :
           LET r == completeDataset[i]
               b == r.behaviors
           IN /\ r.meets_exercise_guidelines = (b.motion_days_week >= 3)
              /\ r.meets_sleep_guidelines =
                     (b.sleep_hours >= 7000 /\ b.sleep_quality_score >= 6000)
              /\ r.high_diet_quality = (b.diet_mediterranean_score >= 7000)
              /\ r.regular_meditation = (b.meditation_minutes_week >= 150)
              /\ r.strong_social_support = (b.social_connections_count >= 4)
              /\ r.high_purpose = (b.purpose_meaning_score >= 8000)
              /\ r.healthy_aging_profile = calculateHealthyAgingProfile(b, r.outcomes)
              /\ r.blue_zone_similarity_score =
                     calculateBlueZoneSimilarity(b, r.demographics)
    /\ pc # "idle" /\ pc # "generate" =>
           draws = DrawsPerProfile * Len(demographics)
                   + (DrawsPerBehaviors + DrawsPerOutcomes) * Len(completeDataset)

\* a record that meets the exercise, sleep, diet and social thresholds, and
\* a record that misses all four
C9_Witness ==
    /\ \E i \in Positions(completeDataset) :
           /\ completeDataset[i].meets_exercise_guidelines
           /\ completeDataset[i].meets_sleep_guidelines
           /\ completeDataset[i].high_diet_quality
           /\ completeDataset[i].strong_social_support
    /\ \E i \in Positions(completeDataset) :
           /\ ~completeDataset[i].meets_exercise_guidelines
           /\ ~completeDataset[i].meets_sleep_guidelines
           /\ ~completeDataset[i].high_diet_quality
           /\ ~completeDataset[i].strong_social_support

\* -1 <= f <= 1
inUnitInterval(f) == FLe(FromInt(0 - 1), f) /\ FLe(f, FromInt(1))

\* the five Pearson correlations of a report
correlations(rep) ==
    << rep.demographic_accuracy.income_education_correlation,
       rep.demographic_accuracy.fitness_age_relationship,
       rep.behavior_correlations.exercise_sleep_correlation,
       rep.behavior_correlations.diet_meditation_correlation,
       rep.behavior_correlations.social_purpose_correlation >>

\* C10: for a non-empty dataset each of the five Pearson correlations of the
\* report lies in [-1, 1] and age_distribution_ks_test lies in [0, 1].
C10_StatisticsInRange ==
    (validationResults # null /\ dataset # <<>>) =>
        /\ \A i \in 1 .. 5 : inUnitInterval(correlations(report)[i])
        /\ FLe(Zero, report.demographic_accuracy.age_distribution_ks_test)
        /\ FLe(report.demographic_accuracy.age_distribution_ks_test, FromInt(1))

\* C11: within one run of the generation handler, validateDataset is called
\* if and only if generateCompleteDataset has returned and
\* config.include_validation is true: the handler stands at the call only
\* for a request with include_validation, the call is never reached before
\* the dataset is returned, and once the handler is past the call a report
\* has been stored exactly when include_validation is true.
C11_ValidationIffRequested ==
    /\ pc = "validate" => config.include_validation /\ dataset = completeDataset
    /\ pc \in {"idle", "generate", "loop"} => validationResults = null
    /\ pc \in {"finally", "done"} =>
           (validationResults # null <=> config.include_validation)

\* a finished run with include_validation that stored a report of a
\* non-empty dataset
C11_Witness ==
    /\ pc = "done"
    /\ config.include_validation
    /\ Len(dataset) >= 2
    /\ validationResults # null

\* a finished run without include_validation, with a non-empty dataset and
\* no report
C11_WitnessNotRequested ==
    /\ pc = "done"
    /\ ~config.include_validation
    /\ Len(dataset) >= 2
    /\ validationResults = null

\* C12: every generated hydration_cups_day value lies in the range 4 to 12
\* cups per day that the README gives for the Hydration activity.
C12_HydrationInDocumentedRange ==
    \A i \in Positions(completeDataset) :
        LET cups == completeDataset[i].behaviors.hydration_cups_day
        IN 4 <= cups /\ cups <= 12

\* the midpoint tables of the specification, milli years and dollars
ageMidpoints ==
    [g \in {"18-24", "25-34", "35-44", "45-54", "55-64", "65-74", "75+"} |->
        CASE g = "18-24" -> 21000
          [] g = "25-34" -> 29500
          [] g = "35-44" -> 39500
          [] g = "45-54" -> 49500
          [] g = "55-64" -> 59500
          [] g = "65-74" -> 69500
          [] g = "75+" -> 80000]

incomeMidpoints ==
    [b \in {"<$35k", "$35-75k", "$75-100k", ">$100k"} |->
        CASE b = "<$35k" -> 25000
          [] b = "$35-75k" -> 55000
          [] b = "$75-100k" -> 87500
          [] b = ">$100k" -> 125000]

\* a grid of Math.random() values, per-mille, that makes sampleAgeGroup
\* return each of its seven brackets
drawGrid == {100 * j : j \in 0 .. 9} \cup {999}

\* a profile carries the midpoints of its own brackets
midpointsOfBrackets(p) ==
    /\ p.age_group \in DOMAIN ageMidpoints
    /\ p.age_numeric = ageMidpoints[p.age_group]
    /\ p.income_bracket \in DOMAIN incomeMidpoints
    /\ p.income_numeric = incomeMidpoints[p.income_bracket]

\* C13: in every generated profile (and in the copy of it each record
\* carries) age_numeric and income_numeric are the table midpoints of
\* age_group and income_bracket, so two profiles with the same bracket have
\* the same midpoint and the fallbacks 40 and 50000 are never emitted; where
\* the sampling of a single-month run is about to start (the samplers are
\* the same in every run), every bracket the samplers can return for any
\* draw has a row in ageGroupToNumeric and incomeBracketToNumeric.
C13_MidpointsFromBrackets ==
    /\ \A i \in Positions(demographics) : midpointsOfBrackets(demographics[i])
    /\ \A i \in Positions(completeDataset) :
           midpointsOfBrackets(completeDataset[i].demographics)
    /\ \A i, j \in Positions(demographics) :
           /\ demographics[i].age_group = demographics[j].age_group
                  => demographics[i].age_numeric = demographics[j].age_numeric
           /\ demographics[i].income_bracket = demographics[j].income_bracket
                  => demographics[i].income_numeric = demographics[j].income_numeric
    /\ (pc = "generate" /\ config.months = 1) =>
           /\ {sampleAgeGroup(r) : r \in drawGrid} = DOMAIN ageMidpoints
           /\ \A g \in DOMAIN ageMidpoints :
                  /\ ageGroupToNumeric(g) = ageMidpoints[g]
                  /\ \A education \in {sampleEducationByAge(g, r) : r \in drawGrid} :
                         \A r2 \in drawGrid :
                            LET income == sampleIncomeByEducationAge(education, g, r2)
                            IN /\ income \in DOMAIN incomeMidpoints
                               /\ incomeBracketToNumeric(income) = incomeMidpoints[income]

\* two profiles of one run that share the oldest age bracket and differ in
\* income bracket
C13_Witness ==
    /\ Len(demographics) = 2
    /\ demographics[1].age_group = "75+"
    /\ demographics[2].age_group = "75+"
    /\ demographics[1].income_bracket # demographics[2].income_bracket

\* calculateBiologicalAge before Math.max(18, .), milli years: the baseline,
\* the elapsed years and the annual budget of the current behavior vector
\* spread over the elapsed months
biologicalAgeUnfloored(chronologicalAge, behaviors, monthsElapsed) ==
    chronologicalAge + (monthsElapsed * 1000) \div 12
        + (ageModification(behaviors) \div 12) * monthsElapsed

\* C14: for monthsElapsed > 0 and two behavior vectors identical except that
\* one crosses a risk threshold (smoking_status = Current,
\* alcohol_drinks_week > 14, processed_food_servings_week > 10), the
\* unfloored biological age of the one crossing the threshold is strictly
\* greater. Checked on every generated record with month > 0 against the
\* same vector with the one risk field moved across its threshold.
C14_RiskBehaviorsAddAge ==
    \A i \in Positions(completeDataset) :
        LET rec == completeDataset[i]
            b == rec.behaviors
            age == rec.demographics.age_numeric
            smoker == [b EXCEPT !.smoking_status = "Current"]
            nonSmoker == [b EXCEPT !.smoking_status = "Never"]
            drinker == [b EXCEPT !.alcohol_drinks_week = 15]
            moderate == [b EXCEPT !.alcohol_drinks_week = 14]
            processed == [b EXCEPT !.processed_food_servings_week = 11]
            unprocessed == [b EXCEPT !.processed_food_servings_week = 10]
        IN rec.month > 0 =>
              /\ biologicalAgeUnfloored(age, smoker, rec.month)
                     > biologicalAgeUnfloored(age, nonSmoker, rec.month)
              /\ biologicalAgeUnfloored(age, drinker, rec.month)
                     > biologicalAgeUnfloored(age, moderate, rec.month)
              /\ biologicalAgeUnfloored(age, processed, rec.month)
                     > biologicalAgeUnfloored(age, unprocessed, rec.month)

\* the protective conditions of calculateBiologicalAge that a behavior
\* vector meets
protectiveCrossed(b) ==
    [motion |-> b.motion_days_week >= 4,
     diet |-> b.diet_mediterranean_score >= 7000,
     meditation |-> b.meditation_minutes_week >= 150,
     sleep |-> b.sleep_quality_score >= 7000,
     purpose |-> b.purpose_meaning_score >= 8000,
     social |-> b.social_connections_count >= 4]

\* the risk conditions of calculateBiologicalAge that a behavior vector meets
riskCrossed(b) ==
    [smoking |-> b.smoking_status = "Current",
     alcohol |-> b.alcohol_drinks_week > 14,
     processed |-> b.processed_food_servings_week > 10]

\* C15: the amount the protective behaviors subtract from the annual budget
\* depends only on which thresholds are crossed and not on the magnitude of
\* any behavior field: two generated behavior vectors that cross the same
\* protective and risk thresholds have the same annual budget.
C15_FixedProtectiveEffects ==
    \A i, j \in Positions(completeDataset) :
        LET b1 == completeDataset[i].behaviors
            b2 == completeDataset[j].behaviors
        IN protectiveCrossed(b1) = protectiveCrossed(b2) /\ riskCrossed(b1) = riskCrossed(b2)
              => ageModification(b1) = ageModification(b2)

\* C16: in every record biological_age_years is
\* max(18, baselineAge + month/12 + (annualBudget/12) * month) with the
\* annual budget of that record's own behavior vector and the profile's
\* age_numeric as baseline, so it is a function of the record alone; in a
\* month-0 record it is max(18, baselineAge) whatever the behaviors.
C16_BiologicalAgeFormula ==
    \A i \in Positions(completeDataset) :
        LET rec == completeDataset[i]
            baselineAge == rec.demographics.age_numeric
        IN /\ rec.outcomes.biological_age_years =
                  Max(18000, biologicalAgeUnfloored(baselineAge, rec.behaviors, rec.month))
           /\ rec.month = 0 => rec.outcomes.biological_age_years = Max(18000, baselineAge)

\* a subject whose month-0 record has a non-zero annual budget and a later
\* record, a year or more on, whose budget has moved the biological age
\* away from baseline plus elapsed time without reaching the floor
C16_Witness ==
    \E i, j \in Positions(completeDataset) :
        LET first == completeDataset[i]
            later == completeDataset[j]
        IN /\ first.subject_id = later.subject_id
           /\ first.month = 0
           /\ ageModification(first.behaviors) # 0
           /\ later.month >= 12
           /\ later.outcomes.biological_age_years > 18000
           /\ later.outcomes.biological_age_years
                  # later.demographics.age_numeric + (later.month * 1000) \div 12

\* C17: in every record biological_age_acceleration is biological_age_years
\* minus the age_numeric of the subject's profile, every record of a subject
\* carries the same age_numeric, and the acceleration is 0 in every month-0
\* record.
C17_AccelerationFromBaseline ==
    /\ \A i \in Positions(completeDataset) :
           LET rec == completeDataset[i]
           IN /\ rec.outcomes.biological_age_acceleration =
                     rec.outcomes.biological_age_years - rec.demographics.age_numeric
              /\ rec.month = 0 => rec.outcomes.biological_age_acceleration = 0
    /\ \A i \in Positions(completeDataset) : \A j \in (i + 1) .. Len(completeDataset) :
           completeDataset[i].subject_id = completeDataset[j].subject_id
              => completeDataset[i].demographics.age_numeric
                    = completeDataset[j].demographics.age_numeric

\* a subject with a month-0 record and later records of both signs of
\* acceleration
C17_Witness ==
    \E i, j, k \in Positions(completeDataset) :
        /\ completeDataset[i].subject_id = completeDataset[j].subject_id
        /\ completeDataset[i].subject_id = completeDataset[k].subject_id
        /\ completeDataset[i].month = 0
        /\ completeDataset[j].month > 0
        /\ completeDataset[j].outcomes.biological_age_acceleration < 0
        /\ completeDataset[k].outcomes.biological_age_acceleration > 0

\* a <= b, strictly when neither value sits on a clamp bound of the
\* mortality risk score
belowUnlessClamped(a, b) ==
    /\ a <= b
    /\ (100 < a /\ b < 10000) => a < b

\* C18: the mortality risk score starts from 1.0, the factors of the
\* protective thresholds (purpose >= 8, motion >= 3, diet >= 7,
\* meditation >= 150) are strictly below 1 and those of the risk conditions
\* (current smoking, fewer than 2 social ties) strictly above 1; so for
\* every generated record, at the record's biological age, moving one field
\* across its protective threshold never raises the returned risk, moving
\* one field into its risk condition never lowers it, and the returned risk
\* lies in [0.1, 10.0].
C18_MortalityRiskMonotone ==
    /\ \A k \in {"purpose_high", "exercise_regular", "diet_quality_high", "meditation_practice"} :
           0 < mortalityRiskEffects[k] /\ mortalityRiskEffects[k] < 1000
    /\ \A k \in {"smoking_current", "social_isolated"} : mortalityRiskEffects[k] > 1000
    /\ completeDataset # <<>> =>
           LET rec == lastRecord
               d == rec.demographics
               b == rec.behaviors
               age == rec.outcomes.biological_age_years
               risk(v) == calculateMortalityRisk(d, v, age)
           IN /\ rec.outcomes.mortality_risk_score = risk(b)
              /\ 100 <= risk(b) /\ risk(b) <= 10000
              /\ belowUnlessClamped(risk([b EXCEPT !.purpose_meaning_score = 8000]),
                                     risk([b EXCEPT !.purpose_meaning_score = 7900]))
              /\ belowUnlessClamped(risk([b EXCEPT !.motion_days_week = 3]),
                                     risk([b EXCEPT !.motion_days_week = 2]))
              /\ belowUnlessClamped(risk([b EXCEPT !.diet_mediterranean_score = 7000]),
                                     risk([b EXCEPT !.diet_mediterranean_score = 6900]))
              /\ belowUnlessClamped(risk([b EXCEPT !.meditation_minutes_week = 150]),
                                     risk([b EXCEPT !.meditation_minutes_week = 149]))
              /\ belowUnlessClamped(risk([b EXCEPT !.smoking_status = "Never"]),
                                     risk([b EXCEPT !.smoking_status = "Current"]))
              /\ belowUnlessClamped(risk([b EXCEPT !.smoking_status = "Former"]),
                                     risk([b EXCEPT !.smoking_status = "Current"]))
              /\ belowUnlessClamped(risk([b EXCEPT !.social_connections_count = 2]),
                                     risk([b EXCEPT !.social_connections_count = 1]))

\* a generated record of a socially isolated current smoker who exercises
\* regularly, whose risk lies strictly inside the clamp, and a record of a
\* high-diet-quality non-smoker with two or more social ties
C18_Witness ==
    \E i, j \in Positions(completeDataset) :
        LET b1 == completeDataset[i].behaviors
            b2 == completeDataset[j].behaviors
        IN /\ b1.smoking_status = "Current"
           /\ b1.social_connections_count < 2
           /\ b1.motion_days_week >= 3
           /\ completeDataset[i].outcomes.mortality_risk_score > 100
           /\ completeDataset[i].outcomes.mortality_risk_score < 10000
           /\ b2.smoking_status # "Current"
           /\ b2.social_connections_count >= 2
           /\ b2.diet_mediterranean_score >= 7000

Seasons == {"Spring", "Summer", "Fall", "Winter"}

\* the behavior vector that the call of generateMonthlyTWABehaviors which
\* produced the last record returns for another season: same profile, same
\* month, same Math.random() results
behaviorsInSeason(season) ==
    generateMonthlyTWABehaviors(lastRecord.demographics, lastRecord.month, season,
                                seed, draws - DrawsPerRecord)

\* the fields of a behavior vector
behaviorFields ==
    {"motion_days_week", "sleep_hours", "sleep_quality_score", "hydration_cups_day",
     "diet_mediterranean_score", "meditation_minutes_week", "smoking_status",
     "alcohol_drinks_week", "added_sugar_grams_day", "sodium_grams_day",
     "processed_food_servings_week", "social_connections_count",
     "nature_minutes_week", "cultural_hours_week", "purpose_meaning_score"}

\* the fields on which two behavior vectors differ
differingFields(b1, b2) == {fld \in behaviorFields : b1[fld] # b2[fld]}

\* C19 as stated: two calls of generateMonthlyTWABehaviors that differ only
\* in season agree on every field other than motion_days_week and
\* nature_minutes_week.
C19_SeasonOnlyMotionAndNature ==
    completeDataset # <<>> =>
        \A season \in Seasons :
            differingFields(lastRecord.behaviors, behaviorsInSeason(season))
                \subseteq {"motion_days_week", "nature_minutes_week"}

\* C19, amended: the season is read only by the motion and the nature
\* computation. Two calls that differ only in season agree on
\* smoking_status, alcohol_drinks_week, social_connections_count and
\* cultural_hours_week; when they also return the same motion_days_week
\* they agree on every field other than nature_minutes_week; the fields
\* computed from motion days (sleep, hydration, diet, meditation, sugar,
\* sodium, processed food, purpose) can differ with the season.
C19_SeasonThroughMotionAndNature ==
    completeDataset # <<>> =>
        /\ DOMAIN lastRecord.behaviors = behaviorFields
        /\ \A season \in Seasons :
               LET other == behaviorsInSeason(season)
                   differing == differingFields(lastRecord.behaviors, other)
               IN /\ differing \cap {"smoking_status", "alcohol_drinks_week",
                                      "social_connections_count", "cultural_hours_week"} = {}
                  /\ other.motion_days_week = lastRecord.behaviors.motion_days_week
                         => differing \subseteq {"nature_minutes_week"}
                  /\ season = lastRecord.season => differing = {}

\* a record for which one other season changes the nature minutes alone and
\* another changes the motion days and, with them, sleep and diet
C19_Witness ==
    /\ completeDataset # <<>>
    /\ \E s1, s2 \in Seasons :
           /\ differingFields(lastRecord.behaviors, behaviorsInSeason(s1))
                  = {"nature_minutes_week"}
           /\ {"motion_days_week", "sleep_hours", "diet_mediterranean_score"}
                  \subseteq differingFields(lastRecord.behaviors, behaviorsInSeason(s2))

\* sleep values {hours, quality}, milli, across the range generateSleepBehavior
\* returns
sleepValues ==
    {[hours |-> h, quality |-> q] : h \in {4000, 6000, 8000, 10000},
                                    q \in {1000, 4000, 7000, 10000}}

\* the diet scores generateDietBehavior returns: 1.0 to 10.0 in steps of 0.1
dietScores == {100 * j : j \in 10 .. 100}

\* what the call that produced the last record had in scope
lastFactors == calculateDemographicFactors(lastRecord.demographics)
lastDraw(n) == Draw(seed, draws - DrawsPerRecord + n)

\* holding profile, motion days and noise draw fixed, two sleep values give
\* different diet scores
dietDependsOnSleep ==
    \E s1, s2 \in sleepValues :
        dietScoreAt(lastFactors, lastRecord.behaviors.motion_days_week, s1, lastDraw(4))
            # dietScoreAt(lastFactors, lastRecord.behaviors.motion_days_week, s2, lastDraw(4))

\* holding profile and noise draw fixed, added sugar, sodium and processed
\* food do not increase when the diet score goes up one step
intakeNonIncreasingInDiet ==
    \A score \in dietScores \ {10000} :
        /\ generateSugarBehavior(lastFactors, score + 100, lastDraw(8))
               <= generateSugarBehavior(lastFactors, score, lastDraw(8))
        /\ generateSodiumBehavior(lastFactors, score + 100, lastDraw(9))
               <= generateSodiumBehavior(lastFactors, score, lastDraw(9))
        /\ generateProcessedFoods(lastFactors, score + 100, lastDraw(10))
               <= generateProcessedFoods(lastFactors, score, lastDraw(10))

\* the last record's diet and intake fields are the ones these calls return
lastRecordFromCalls ==
    LET b == lastRecord.behaviors
    IN /\ b.diet_mediterranean_score =
              dietScoreAt(lastFactors, b.motion_days_week,
                          [hours |-> b.sleep_hours, quality |-> b.sleep_quality_score],
                          lastDraw(4))
       /\ b.added_sugar_grams_day =
              generateSugarBehavior(lastFactors, b.diet_mediterranean_score, lastDraw(8))
       /\ b.sodium_grams_day =
              generateSodiumBehavior(lastFactors, b.diet_mediterranean_score, lastDraw(9))
       /\ b.processed_food_servings_week =
              generateProcessedFoods(lastFactors, b.diet_mediterranean_score, lastDraw(10))

\* C20: the sampled diet score is influenced by the sampled sleep value as
\* well as by the motion days: holding profile, motion days and noise draw
\* fixed, two sleep values exist that give different diet scores (asked of
\* every record whose diet score is not on a clamp bound); and added sugar,
\* sodium and processed-food intake are each non-increasing in the diet
\* score.
C20_DietFromSleepAndMotion ==
    completeDataset # <<>> =>
        LET score == lastRecord.behaviors.diet_mediterranean_score
        IN /\ lastRecordFromCalls
           /\ (1000 < score /\ score < 10000) => dietDependsOnSleep
           /\ intakeNonIncreasingInDiet

\* the dataset without the later records of its first subject, and the
\* dataset reduced to the month-0 record of every subject
withoutRepeatsOfFirstSubject ==
    SelectSeq(dataset, LAMBDA r : r.month = 0 \/ r.subject_id # dataset[1].subject_id)

monthZeroRecords == SelectSeq(dataset, LAMBDA r : r.month = 0)

\* C21: the demographic-accuracy statistics of the report use one profile
\* per subject_id, so they are the statistics of the dataset cut down to one
\* record per subject, and of the dataset in which only the first subject is
\* cut down to one record; the three behavior correlations are the Pearson
\* correlations over all records of the dataset.
C21_OneProfilePerSubject ==
    (pc = "done" /\ validationResults # null /\ dataset # <<>>) =>
        /\ report.demographic_accuracy = validateDemographicAccuracy(monthZeroRecords)
        /\ report.demographic_accuracy
               = validateDemographicAccuracy(withoutRepeatsOfFirstSubject)
        /\ report.behavior_correlations.exercise_sleep_correlation =
               calculateCorrelation(
                   [i \in Positions(dataset) |-> FromInt(dataset[i].behaviors.motion_days_week)],
                   [i \in Positions(dataset) |-> Milli(dataset[i].behaviors.sleep_quality_score)])
        /\ report.behavior_correlations.diet_meditation_correlation =
               calculateCorrelation(
                   [i \in Positions(dataset) |-> Milli(dataset[i].behaviors.diet_mediterranean_score)],
                   [i \in Positions(dataset) |-> FromInt(dataset[i].behaviors.meditation_minutes_week)])
        /\ report.behavior_correlations.social_purpose_correlation =
               calculateCorrelation(
                   [i \in Positions(dataset) |-> FromInt(dataset[i].behaviors.social_connections_count)],
                   [i \in Positions(dataset) |-> Milli(dataset[i].behaviors.purpose_meaning_score)])

\* a report on two subjects of different age groups with several records
\* each, whose exercise-sleep correlation is not the one of the month-0
\* records alone
C21_Witness ==
    /\ pc = "done"
    /\ validationResults # null
    /\ Len(demographics) = 2
    /\ config.months >= 3
    /\ demographics[1].age_group # demographics[2].age_group
    /\ report.behavior_correlations.exercise_sleep_correlation
           # validateBehaviorCorrelations(monthZeroRecords).exercise_sleep_correlation

\* a number of the validation report in thousandths, rounded toward minus
\* infinity
inMilli(f) ==
    IF f.e >= 0 THEN f.m * 1000 * Pow(2, f.e)
    ELSE (f.m * 1000) \div Pow(2, 0 - f.e)

\* the exact mean, in thousandths, of one outcome field over a group
RECURSIVE sumOfOutcome(_, _)
sumOfOutcome(group, field) ==
    IF group = <<>> THEN 0
    ELSE group[1].outcomes[field] + sumOfOutcome(Tail(group), field)

meanOfOutcome(group, field) == sumOfOutcome(group, field) \div Len(group)

\* metric is mean(first) - mean(second) of the field, up to the rounding of
\* the report's arithmetic (a hundredth of the two means), and exactly 0
\* when either group is empty
isMeanDifference(metric, first, second, field) ==
    IF first = <<>> \/ second = <<>>
    THEN metric = Zero
    ELSE LET mean1 == meanOfOutcome(first, field)
             mean2 == meanOfOutcome(second, field)
         IN /\ ~metric.nan
            /\ Abs(inMilli(metric) - (mean1 - mean2)) <= (mean1 + mean2) \div 100

\* the three outcome-validity metrics of a report on ds are the mean
\* differences of the subgroups the claim names
outcomeValidityAsStated(ds, validity) ==
    /\ isMeanDifference(validity.biological_age_effects,
                        SelectSeq(ds, LAMBDA r : r.behaviors.motion_days_week >= 4),
                        SelectSeq(ds, LAMBDA r : r.behaviors.motion_days_week < 2),
                        "biological_age_years")
    /\ isMeanDifference(validity.mortality_risk_factors,
                        SelectSeq(ds, LAMBDA r : r.behaviors.smoking_status = "Current"),
                        SelectSeq(ds, LAMBDA r : r.behaviors.smoking_status = "Never"),
                        "mortality_risk_score")
    /\ isMeanDifference(validity.purpose_longevity_relationship,
                        SelectSeq(ds, LAMBDA r : r.behaviors.purpose_meaning_score >= 8000),
                        SelectSeq(ds, LAMBDA r : r.behaviors.purpose_meaning_score <= 4000),
                        "estimated_lifespan_years")

\* the dataset with its first record moved into the low-exercise and the
\* high-purpose subgroup, which the sampled values of a run seldom reach
withLowExerciseHighPurpose ==
    [dataset EXCEPT ![1] =
        [@ EXCEPT !.behaviors =
            [@ EXCEPT !.motion_days_week = 1, !.purpose_meaning_score = 8000]]]

\* C22: each outcome-validity metric of the report is mean(first subgroup)
\* minus mean(second subgroup) over records (biological age of motion >= 4
\* against motion < 2, mortality risk of Current against Never smokers,
\* lifespan of purpose >= 8 against purpose <= 4), and exactly 0 whenever
\* either subgroup is empty; the same holds of validateOutcomeValidity on
\* the dataset with one record moved into the low-exercise and high-purpose
\* subgroups.
C22_OutcomeValidityMeanDifferences ==
    (pc = "done" /\ validationResults # null /\ dataset # <<>>) =>
        /\ outcomeValidityAsStated(dataset, report.outcome_validity)
        /\ outcomeValidityAsStated(withLowExerciseHighPurpose,
                                   validateOutcomeValidity(withLowExerciseHighPurpose))

\* a report on a dataset with Current, Former and Never smokers, whose
\* smoking metric is positive and whose purpose metric is 0 for want of a
\* high-purpose record, while the variant dataset has all six subgroups
C22_Witness ==
    /\ pc = "done"
    /\ validationResults # null
    /\ \A status \in {"Current", "Former", "Never"} :
           \E i \in Positions(dataset) : dataset[i].behaviors.smoking_status = status
    /\ report.outcome_validity.mortality_risk_factors.m > 0
    /\ report.outcome_validity.purpose_longevity_relationship = Zero
    /\ \E i \in Positions(dataset) : dataset[i].behaviors.motion_days_week >= 4
    /\ \E i \in Positions(dataset) : i > 1 /\ dataset[i].behaviors.purpose_meaning_score <= 4000
    /\ validateOutcomeValidity(withLowExerciseHighPurpose).biological_age_effects # Zero
    /\ validateOutcomeValidity(withLowExerciseHighPurpose).purpose_longevity_relationship # Zero

\* the records of every subject but the first
withoutFirstSubject == SelectSeq(dataset, LAMBDA r : r.subject_id # dataset[1].subject_id)

\* C23: aging_trajectories and behavior_stability average only over
\* subjects with at least 2 records. In a report on a dataset where every
\* subject has one record (months = 1) both are exactly 0; and a subject
\* with a single record adds to neither sum nor divisor: cutting the first
\* subject down to its month-0 record gives the two metrics of the dataset
\* without that subject.
C23_OnlySubjectsWithTwoRecords ==
    (pc = "done" /\ validationResults # null /\ dataset # <<>>) =>
        /\ config.months = 1 =>
               /\ report.longitudinal_coherence.aging_trajectories = Zero
               /\ report.longitudinal_coherence.behavior_stability = Zero
        /\ LET cut == validateLongitudinalCoherence(withoutRepeatsOfFirstSubject)
               rest == validateLongitudinalCoherence(withoutFirstSubject)
           IN /\ cut.aging_trajectories = rest.aging_trajectories
              /\ cut.behavior_stability = rest.behavior_stability

\* a report on two subjects with several records each and non-zero metrics,
\* where the second subject alone has a non-zero slope and stability
C23_Witness ==
    /\ pc = "done"
    /\ validationResults # null
    /\ Len(demographics) = 2
    /\ config.months >= 3
    /\ report.longitudinal_coherence.aging_trajectories # Zero
    /\ report.longitudinal_coherence.behavior_stability # Zero
    /\ validateLongitudinalCoherence(withoutFirstSubject).aging_trajectories # Zero
    /\ validateLongitudinalCoherence(withoutFirstSubject).behavior_stability # Zero

\* a report on two subjects with one record each
C23_WitnessSingleRecords ==
    /\ pc = "done"
    /\ validationResults # null
    /\ Len(demographics) = 2
    /\ config.months = 1

Educations == {"Less than HS", "High School", "Some College", "Bachelor+"}

\* after is a probability list as long as before (entries in [0, 1], summing
\* to 1 up to the rounding of the division), in which the share of every
\* entry at an index below length / 2 has moved down and the share of every
\* other entry up when towardHigher, and the other way round otherwise
isShifted(before, after, towardHigher) ==
    /\ Len(after) = Len(before)
    /\ \A i \in Positions(after) : 0 <= after[i] /\ after[i] <= 10000
    /\ 10000 - Len(after) <= SumSeq(after) /\ SumSeq(after) <= 10000
    /\ \A i \in Positions(after) :
           LET lowerHalf == 2 * (i - 1) < Len(before)
               down == after[i] * SumSeq(before) < before[i] * SumSeq(after)
               up == after[i] * SumSeq(before) > before[i] * SumSeq(after)
           IN IF lowerHalf = towardHigher THEN down ELSE up

\* C24: for every table and factor with which the sampler calls
\* shiftProbabilitiesTowardHigher or shiftProbabilitiesTowardLower (income
\* tables with factor ageMidpoint / 50 > 1; fitness tables with factor 1.2,
\* then 1.1 for Bachelor+) the result has the same length, entries in
\* [0, 1] and sum 1, and the entries at indices below length / 2 are the
\* ones moved as the lower half: of the three fitness entries, Low and
\* Medium. Stated for every table where the sampling of a single-month run
\* is about to start (the tables are the same in every run), and for the
\* tables of the profiles of a run where their sampling has ended.
C24_ShiftedProbabilities ==
    /\ (pc = "generate" /\ config.months = 1) =>
           \A g \in DOMAIN ageMidpoints :
              /\ incomeAgeMultiplier(g) > 1000 =>
                     \A education \in Educations \cup {"unlisted"} :
                        isShifted(incomeBaseProbs(education),
                                  shiftProbabilitiesTowardHigher(incomeBaseProbs(education),
                                                                 incomeAgeMultiplier(g)),
                                  TRUE)
              /\ \A income \in DOMAIN incomeMidpoints :
                     LET p0 == fitnessBaseProbs(g)
                         p1 == fitnessIncomeAdjusted(p0, income)
                     IN /\ incomeMidpoints[income] > 75000 => isShifted(p0, p1, TRUE)
                        /\ incomeMidpoints[income] < 35000 => isShifted(p0, p1, FALSE)
                        /\ isShifted(p1, fitnessEducationAdjusted(p1, "Bachelor+"), TRUE)
    /\ (pc = "loop" /\ person = 1 /\ month = 0) =>
        \A i \in Positions(demographics) :
           LET d == demographics[i]
               p0 == fitnessBaseProbs(d.age_group)
               p1 == fitnessIncomeAdjusted(p0, d.income_bracket)
               p2 == fitnessEducationAdjusted(p1, d.education)
           IN /\ d.income_numeric > 75000 => isShifted(p0, p1, TRUE)
              /\ d.income_numeric < 35000 => isShifted(p0, p1, FALSE)
              /\ d.education = "Bachelor+" => isShifted(p1, p2, TRUE)

\* a sampled profile of the oldest bracket (income table shifted by factor
\* 1.6) with income above 75000 (fitness table shifted toward higher), next
\* to a Bachelor+ profile with income below 35000 (fitness table shifted
\* toward lower by 1.2, then toward higher by 1.1)
C24_Witness ==
    \E i, j \in Positions(demographics) :
        /\ demographics[i].age_group = "75+"
        /\ demographics[i].income_numeric > 75000
        /\ demographics[j].income_numeric < 35000
        /\ demographics[j].education = "Bachelor+"

\* C25: once a request has finished, a non-null validationResults is the
\* report validateDataset computes from the dataset held in App state.
C25_ReportOfCurrentDataset ==
    (pc \in {"idle", "done"} /\ validationResults # null) =>
        report = validateDataset(dataset)

inRequest == pc \in {"generate", "loop", "validate", "finally"}

generationThrew == pc \in {"finally", "done"} /\ error # null

requestFlags ==
    /\ isGenerating <=> inRequest
    /\ pc \in {"generate", "loop", "validate"} => error = null

\* a step that starts a request, generates, or ends with the error of a
\* thrown generation set
keepsResults ==
    (pc' \in {"generate", "loop"} \/ error' # null) =>
        /\ dataset' = dataset
        /\ validationResults' = validationResults

\* C29: isGenerating is true exactly from the start of a request to the end
\* of its finally block, error is null from the start of the request until
\* generation throws, and a request whose generation throws ends with error
\* set and with dataset and validationResults as they were before it.
C29_RequestFlagsAndErrors ==
    /\ []requestFlags
    /\ [][keepsResults]_vars
    /\ [][(pc \in {"generate", "loop"} /\ pc' = "finally" /\ dataset' # completeDataset)
            => error' # null]_vars
    /\ [][(pc = "idle" /\ pc' # "idle") => (isGenerating' /\ error' = null)]_vars
    /\ [][(pc = "finally" /\ pc' # "finally") => (~isGenerating' /\ error' = error)]_vars

\* a request that failed after one that succeeded with a report
C29_Witness ==
    /\ pc = "done"
    /\ generationThrew
    /\ ~isGenerating
    /\ dataset # <<>>
    /\ validationResults # null
    /\ completeDataset # dataset

\* C26: validateDataset leaves its input as it was: the array holds the same
\* records, unmodified, in the same order after the call; the sorting acts on
\* the per-subject arrays only, which hold each subject's records by month.
C26_ValidationLeavesDataset ==
    /\ [][pc = "validate" =>
            /\ completeDataset' = completeDataset
            /\ dataset' = dataset]_vars
    /\ [](pc = "validate" =>
            LET arrays == arraysAfterValidation(completeDataset)
            IN /\ arrays.dataset = completeDataset
               /\ \A i \in DOMAIN arrays.subjectGroups :
                     \A j \in DOMAIN arrays.subjectGroups[i] :
                        /\ arrays.subjectGroups[i][j] \in {completeDataset[k] : k \in DOMAIN completeDataset}
                        /\ arrays.subjectGroups[i][j].month = j - 1)

\* a report was computed from two subjects of two records or more each
C26_Witness ==
    /\ pc = "finally"
    /\ validationResults # null
    /\ Len(dataset) >= 4
    /\ dataset[1].subject_id # dataset[Len(dataset)].subject_id
    /\ dataset[2].month = 1

seasonalGroupsNonEmpty(ds) ==
    \A season \in Seasons : \E i \in DOMAIN ds : ds[i].season = season

\* C27: for a dataset of 1 subject or more and 1 month or more, each of the
\* four seasonal groups has a record and seasonal_variations of the report
\* is a number, and not a negative one.
C27_SeasonalVariationsDefined ==
    (pc = "done" /\ validationResults # null /\ config.n_subjects >= 1 /\ config.months >= 1) =>
        /\ seasonalGroupsNonEmpty(dataset)
        /\ ~report.longitudinal_coherence.seasonal_variations.nan
        /\ ~FLt(report.longitudinal_coherence.seasonal_variations, Zero)

\* from 9 months on every season has a record and the value is a number
C27_DefinedFromNineMonths ==
    (pc = "done" /\ validationResults # null /\ config.n_subjects >= 1 /\ config.months >= 9) =>
        /\ seasonalGroupsNonEmpty(dataset)
        /\ ~report.longitudinal_coherence.seasonal_variations.nan
        /\ ~FLt(report.longitudinal_coherence.seasonal_variations, Zero)

\* below 9 months a season has no record, its mean is 0 / 0 and the value NaN
C27_NaNBelowNineMonths ==
    (pc = "done" /\ validationResults # null /\ config.n_subjects >= 1 /\ config.months \in 1 .. 8) =>
        report.longitudinal_coherence.seasonal_variations.nan

\* added sugar (g), sodium (mg) and cultural hours on both sides of the
\* README's thresholds
otherIntakes ==
    { <<10, 1000, 0>>, <<51, 1000, 20>>, <<10, 6001, 20>>, <<150, 8000, 0>> }

recordJustGenerated == pc = "loop" /\ month > 0

\* C28: with profile, baseline age, monthsElapsed and noise draws as in the
\* call that produced the record, behaviors that differ from the record's
\* only in added sugar, sodium and cultural hours give the record's outcomes.
C28_OutcomesIgnoreSugarSodiumCultural ==
    recordJustGenerated =>
        \A other \in otherIntakes :
            generateAgingWellnessOutcomes(
                lastRecord.demographics,
                [lastRecord.behaviors EXCEPT !.added_sugar_grams_day = other[1],
                                             !.sodium_grams_day = other[2],
                                             !.cultural_hours_week = other[3]],
                lastRecord.demographics.age_numeric,
                lastRecord.month,
                seed,
                draws - DrawsPerRecord + DrawsPerBehaviors) = lastRecord.outcomes

\* a record under both thresholds, past month 0 and with cultural hours,
\* which the values above replace by ones over the thresholds
C28_Witness ==
    /\ recordJustGenerated
    /\ lastRecord.month > 0
    /\ lastRecord.behaviors.added_sugar_grams_day <= 50
    /\ lastRecord.behaviors.sodium_grams_day <= 6000
    /\ lastRecord.behaviors.cultural_hours_week \notin {0, 20}

\* the twelve dates of the year 2024, by month of the year
datesOf2024 ==
    << <<"2", "0", "2", "4", "-", "0", "1", "-", "1", "5">>,
       <<"2", "0", "2", "4", "-", "0", "2", "-", "1", "5">>,
       <<"2", "0", "2", "4", "-", "0", "3", "-", "1", "5">>,
       <<"2", "0", "2", "4", "-", "0", "4", "-", "1", "5">>,
       <<"2", "0", "2", "4", "-", "0", "5", "-", "1", "5">>,
       <<"2", "0", "2", "4", "-", "0", "6", "-", "1", "5">>,
       <<"2", "0", "2", "4", "-", "0", "7", "-", "1", "5">>,
       <<"2", "0", "2", "4", "-", "0", "8", "-", "1", "5">>,
       <<"2", "0", "2", "4", "-", "0", "9", "-", "1", "5">>,
       <<"2", "0", "2", "4", "-", "1", "0", "-", "1", "5">>,
       <<"2", "0", "2", "4", "-", "1", "1", "-", "1", "5">>,
       <<"2", "0", "2", "4", "-", "1", "2", "-", "1", "5">> >>

\* C30: observation_date of a record is '2024-MM-15' with MM the two digits
\* of (month mod 12) + 1; records of one subject whose months differ by a
\* multiple of 12 carry the same date.
C30_ObservationDateOfMonth ==
    /\ \A i \in Positions(completeDataset) :
           completeDataset[i].observation_date
               = datesOf2024[(completeDataset[i].month % 12) + 1]
    /\ returned =>
           \A i, j \in Positions(dataset) :
               (/\ dataset[i].subject_id = dataset[j].subject_id
                /\ (dataset[i].month - dataset[j].month) % 12 = 0)
                  => dataset[i].observation_date = dataset[j].observation_date

\* a subject with records a year apart, and a record of a two-digit month
C30_Witness ==
    \E i, j, k \in Positions(completeDataset) :
        /\ completeDataset[i].subject_id = completeDataset[j].subject_id
        /\ completeDataset[i].month = 0
        /\ completeDataset[j].month = 12
        /\ completeDataset[k].month = 10

=============================================================================
